---- MODULE Spec2Model ----
(***************************************************************************)
(* A model of the apx.rest client generator: ConfigProvider, the           *)
(* Generator.generate / generateApi pipeline (usage discovery, enum scan,  *)
(* schema classification, emission) and the ApiPath / Component renderers. *)
(*                                                                         *)
(* Text is modelled as a sequence of one-character strings, so that the    *)
(* string operations of the source (charAt, slice, split, replace, match)  *)
(* are computed and not assumed.  An absent (undefined) or empty text is   *)
(* the empty sequence: every test the source makes on such a value is a    *)
(* truthiness test, which does not tell the two apart.                     *)
(***************************************************************************)
EXTENDS Integers, Sequences, FiniteSets, TLC

VARIABLES
    pc,                 \* position of Generator.generate / generateApi
    configFile,         \* apx-rest-config.json: [exists, apis]
    defaultConfig,      \* the imported default configuration
    apiIndex,           \* ConfigProvider.apiIndex
    userApiConfigs,     \* ConfigProvider.userApiConfigs: [set, apis] (null when not set)
    userConfig,         \* ConfigProvider.userConfig: [set, isNull, cfg] (undefined when not set)
    numConfigs,         \* generate: numConfigs
    i,                  \* generate: loop index i
    documentUrl,        \* generateApi: documentUrl
    openApiDocument,    \* generateApi: the fetched document [paths, hasComponents, schemas]
    requestNames,       \* generateApi: requestNames
    responseNames,      \* generateApi: responseNames
    opIdx,              \* generateApi: position of the pass over the operations
    schemaIdx,          \* generateApi: position of the classification loop
    enumComponents,     \* module-level Map, in insertion order
    requestComponents,  \* module-level Map, in insertion order
    responseComponents, \* module-level Map, in insertion order
    modelComponents,    \* module-level Map, in insertion order
    enumNames,          \* module-level Set
    endpointToFormRequestNameMap, \* module-level Map, in insertion order
    written,            \* the writes of fs.writeFile by this call of generate, in order
    clock,              \* the time new Date() reads
    run,                \* which call of generate this is, from 1
    fetched,            \* what fetch has answered during this call of generate, in order
    previous,           \* fetched and written as the previous call of generate left them
    client,             \* one call of a generated method on the ApiClient runtime
    apiClient           \* one ApiClient: its header fields, the caller's options object, the last request

vars == <<pc, configFile, defaultConfig, apiIndex, userApiConfigs, userConfig,
          numConfigs, i, documentUrl, openApiDocument, requestNames, responseNames,
          opIdx, schemaIdx, enumComponents, requestComponents, responseComponents,
          modelComponents, enumNames, endpointToFormRequestNameMap, written, clock,
          run, fetched, previous, client, apiClient>>

\* the variables of the generator
generatorVars == <<pc, configFile, defaultConfig, apiIndex, userApiConfigs, userConfig,
                   numConfigs, i, documentUrl, openApiDocument, requestNames,
                   responseNames, opIdx, schemaIdx, enumComponents, requestComponents,
                   responseComponents, modelComponents, enumNames,
                   endpointToFormRequestNameMap, written, clock, run, fetched, previous>>

configVars == <<configFile, defaultConfig, apiIndex, userApiConfigs, userConfig>>

collectionVars == <<enumComponents, requestComponents, responseComponents,
                    modelComponents, enumNames, endpointToFormRequestNameMap>>

-----------------------------------------------------------------------------
(* Characters and the string helpers of JavaScript the source uses.        *)

LowerCase == <<"a","b","c","d","e","f","g","h","i","j","k","l","m",
               "n","o","p","q","r","s","t","u","v","w","x","y","z">>

UpperCase == <<"A","B","C","D","E","F","G","H","I","J","K","L","M",
               "N","O","P","Q","R","S","T","U","V","W","X","Y","Z">>

Digits == {"0","1","2","3","4","5","6","7","8","9"}

Range(s) == {s[k] : k \in DOMAIN s}

\* String.prototype.toUpperCase on one character
toUpperCase(c) ==
    IF c \in Range(LowerCase)
    THEN UpperCase[CHOOSE k \in DOMAIN LowerCase : LowerCase[k] = c]
    ELSE c

\* String.prototype.toLowerCase on one character
toLowerCase(c) ==
    IF c \in Range(UpperCase)
    THEN LowerCase[CHOOSE k \in DOMAIN UpperCase : UpperCase[k] = c]
    ELSE c

\* the character class [a-zA-Z0-9]
IsAlnum(c) == c \in Range(LowerCase) \cup Range(UpperCase) \cup Digits

\* the character class \w
IsWordChar(c) == IsAlnum(c) \/ c = "_"

\* s.charAt(0).toUpperCase() + s.slice(1)
UpperFirst(s) == IF s = <<>> THEN s ELSE <<toUpperCase(s[1])>> \o Tail(s)

\* s.charAt(0).toLowerCase() + s.slice(1)
LowerFirst(s) == IF s = <<>> THEN s ELSE <<toLowerCase(s[1])>> \o Tail(s)

\* Array.prototype.join("")
RECURSIVE Join(_)
Join(parts) == IF parts = <<>> THEN <<>> ELSE Head(parts) \o Join(Tail(parts))

\* the first position at or after k where pat occurs in s, 0 when none
IndexOf(s, pat, k) ==
    LET hits == {p \in k..(Len(s) - Len(pat) + 1) : SubSeq(s, p, p + Len(pat) - 1) = pat}
    IN  IF hits = {} THEN 0 ELSE CHOOSE p \in hits : \A q \in hits : p <= q

\* String.prototype.replace(pat, "") with a string pattern: the first occurrence only
ReplaceFirst(s, pat) ==
    LET p == IndexOf(s, pat, 1)
    IN  IF p = 0 THEN s ELSE SubSeq(s, 1, p - 1) \o SubSeq(s, p + Len(pat), Len(s))

\* String.prototype.startsWith
StartsWith(s, pat) == Len(s) >= Len(pat) /\ SubSeq(s, 1, Len(pat)) = pat

\* str.split(/[^a-zA-Z0-9]/g): one cut at every character that is not alphanumeric
RECURSIVE splitAtUrlChars(_)
splitAtUrlChars(str) ==
    LET cuts == {k \in DOMAIN str : ~IsAlnum(str[k])}
    IN  IF cuts = {} THEN <<str>>
        ELSE LET k == CHOOSE c \in cuts : \A d \in cuts : c <= d
             IN  <<SubSeq(str, 1, k - 1)>> \o splitAtUrlChars(SubSeq(str, k + 1, Len(str)))

\* splitAtUrlChars, each piece with its first letter upper-cased, joined
stripUrlChars(str) ==
    LET a == splitAtUrlChars(str)
        b == [k \in DOMAIN a |-> UpperFirst(a[k])]
    IN  Join(b)

\* endpoint.match(/{\w+}/g) followed by the removal of the braces of each match
RECURSIVE MatchPathParams(_)
MatchPathParams(str) ==
    LET opens == {k \in DOMAIN str :
                    /\ str[k] = "{"
                    /\ \E e \in (k + 2)..Len(str) :
                          /\ str[e] = "}"
                          /\ \A m \in (k + 1)..(e - 1) : IsWordChar(str[m])}
    IN  IF opens = {} THEN <<>>
        ELSE LET k == CHOOSE o \in opens : \A d \in opens : o <= d
                 e == CHOOSE c \in (k + 2)..Len(str) :
                          /\ str[c] = "}"
                          /\ \A m \in (k + 1)..(c - 1) : IsWordChar(str[m])
             IN  <<SubSeq(str, k + 1, e - 1)>> \o MatchPathParams(SubSeq(str, e + 1, Len(str)))

\* ref.split("/").pop(): the text after the last "/"
RECURSIVE SplitPop(_)
SplitPop(ref) ==
    LET p == IndexOf(ref, <<"/">>, 1)
    IN  IF p = 0 THEN ref ELSE SplitPop(SubSeq(ref, p + 1, Len(ref)))

-----------------------------------------------------------------------------
(* Insertion-ordered Map, as a sequence of [key, value] entries.           *)

MapHas(m, k) == \E e \in DOMAIN m : m[e].key = k

MapGet(m, k) == m[CHOOSE e \in DOMAIN m : m[e].key = k].value

\* Map.prototype.set: an existing key keeps its place and takes the new value
MapSet(m, k, v) ==
    IF MapHas(m, k)
    THEN [e \in DOMAIN m |-> IF m[e].key = k THEN [key |-> k, value |-> v] ELSE m[e]]
    ELSE Append(m, [key |-> k, value |-> v])

MapKeys(m) == {m[e].key : e \in DOMAIN m}

\* Map.prototype.values(), in insertion order
MapValues(m) == [e \in DOMAIN m |-> m[e].value]

-----------------------------------------------------------------------------
(* Texts of the model.                                                     *)

NoText == <<>>

TString == <<"s","t","r","i","n","g">>
TArray == <<"a","r","r","a","y">>
TObject == <<"o","b","j","e","c","t">>
TInteger == <<"i","n","t","e","g","e","r">>
TNumber == <<"n","u","m","b","e","r">>
TFile == <<"F","i","l","e">>
TUnknown == <<"u","n","k","n","o","w","n">>
TAny == <<"a","n","y">>
FDateTime == <<"d","a","t","e","-","t","i","m","e">>
FBinary == <<"b","i","n","a","r","y">>

RefPrefix == <<"#","/","c","o","m","p","o","n","e","n","t","s","/","s","c","h","e","m","a","s","/">>

\* the $ref text of a reference to the schema called name
SchemaRef(name) == RefPrefix \o name

-----------------------------------------------------------------------------
(* ConfigProvider.                                                         *)

NotLoaded == [set |-> FALSE]

\* { ...defaultConfig, ...userConfig }: the user's keys over the defaults;
\* spreading a null userConfig adds nothing
MergeConfig(dflt, user) ==
    IF ~user.set THEN dflt
    ELSE [k \in DOMAIN dflt \cup DOMAIN user.cfg |->
            IF k \in DOMAIN user.cfg THEN user.cfg[k] ELSE dflt[k]]

\* getValueFromConfig returning the undefined it found
getValueFromConfigWithoutThrow(keyPath, config) ==
    IF keyPath \in DOMAIN config
    THEN [threw |-> FALSE, value |-> config[keyPath]]
    ELSE [threw |-> FALSE,
          value |-> IF keyPath = "streamedEndpoints" THEN {}
                    ELSE IF keyPath \in {"clientName", "clientBaseUrlValue"}
                         THEN <<"u","n","d","e","f","i","n","e","d">>
                         ELSE "undefined"]

\* getValueFromConfig for a one-segment key path: throws when the key is missing
getValueFromConfig(keyPath, config) ==
    IF keyPath \in DOMAIN config
    THEN [threw |-> FALSE, value |-> config[keyPath]]
    ELSE [threw |-> TRUE]

\* getUserApiConfigs: the value of this.userApiConfigs it leaves (and returns)
getUserApiConfigs(cached, file) ==
    IF cached.set THEN cached
    ELSE IF file.exists /\ file.apis # <<>>
         THEN [set |-> TRUE, apis |-> file.apis]
         ELSE cached

\* getUserConfig: the value of this.userConfig it leaves; what it returns is that
\* value (null when it is still unset).  apiIndex is in bounds in every call the
\* generator makes, so the out-of-bounds throw is not a case of the model.
getUserConfig(cached, apiConfigs, index) ==
    IF cached.set THEN cached
    ELSE IF ~apiConfigs.set THEN cached
         ELSE [set |-> TRUE, cfg |-> apiConfigs.apis[index + 1]]

\* getValue(keyPath) in the present state of the provider
getValue(keyPath) ==
    getValueFromConfig(keyPath,
        MergeConfig(defaultConfig,
            getUserConfig(userConfig, getUserApiConfigs(userApiConfigs, configFile), apiIndex)))

-----------------------------------------------------------------------------
(* Property resolution inside the classification loop.                     *)

NoNested == [present |-> FALSE, type |-> NoText, format |-> NoText, ref |-> NoText,
             referenceIsEnum |-> FALSE]

\* new Property(dto.items) / new Property(dto.additionalProperties) on a raw node:
\* the raw node has no referenceIsEnum, so the nested descriptor's flag is falsy
NestedProperty(raw) ==
    IF ~raw.present THEN NoNested
    ELSE [present |-> TRUE, type |-> raw.type, format |-> raw.format, ref |-> raw.ref,
          referenceIsEnum |-> FALSE]

\* property["$ref"]?.split("/").pop(), NoText for undefined
ReferenceName(ref) == IF ref = NoText THEN NoText ELSE SplitPop(ref)

\* Nullable without the nullable-by-default of a reference
NullableWithoutReferenceDefault(property, schema) ==
    IF schema.hasRequired /\ property.name \in schema.required
    THEN FALSE
    ELSE property.nullable = "true"

\* let nullable = property["nullable"] || !!property["$ref"] || false;
\* if (schema["required"]) if (schema["required"].includes(propertyName)) nullable = false;
Nullable(property, schema) ==
    LET nullable == property.nullable = "true" \/ property.ref # NoText
    IN  IF schema.hasRequired /\ property.name \in schema.required
        THEN FALSE
        ELSE nullable

\* ReferenceIsEnum as a single pass computes it: only the enums the classification
\* loop has already gone through are known
ReferenceIsEnumSinglePass(property, names) ==
    LET seen == {openApiDocument.schemas[k].name :
                    k \in {j \in 1..(schemaIdx - 1) : openApiDocument.schemas[j].hasEnum}}
    IN  \/ (property.ref # NoText /\ SplitPop(property.ref) \in seen)
        \/ (property.items.present /\ property.items.ref # NoText
              /\ SplitPop(property.items.ref) \in seen)

\* enumNames.has(property["$ref"]?.split("/").pop()) ||
\* enumNames.has(property["items"]?.["$ref"]?.split("/").pop())
ReferenceIsEnum(property, names) ==
    \/ (property.ref # NoText /\ ReferenceName(property.ref) \in names)
    \/ (property.items.present /\ property.items.ref # NoText
          /\ ReferenceName(property.items.ref) \in names)

\* let type = property["type"];
\* if (!type && property["oneOf"]) type = oneOf[0]["$ref"]?.split("/").pop() || "unknown";
OneOfType(property) ==
    IF property.type = NoText /\ property.oneOf.present
    THEN IF property.oneOf.ref # NoText THEN ReferenceName(property.oneOf.ref) ELSE TUnknown
    ELSE property.type

\* the Property of a schema classified as a request: the type is taken as it is
RequestProperty(property, schema, names) ==
    [name |-> property.name, type |-> property.type,
     nullable |-> Nullable(property, schema), format |-> property.format,
     ref |-> property.ref, referenceIsEnum |-> ReferenceIsEnum(property, names),
     items |-> NestedProperty(property.items),
     additionalProperties |-> NestedProperty(property.additionalProperties),
     isFormField |-> FALSE]

\* the Property of a schema classified as a response or as a model
ResponseProperty(property, schema, names) ==
    [name |-> property.name, type |-> OneOfType(property),
     nullable |-> Nullable(property, schema), format |-> property.format,
     ref |-> property.ref, referenceIsEnum |-> ReferenceIsEnum(property, names),
     items |-> NestedProperty(property.items),
     additionalProperties |-> NestedProperty(property.additionalProperties),
     isFormField |-> FALSE]

\* nullable: property["nullable"] || false, in the form-data synthesis
FormNullable(property, schema) == property.nullable = "true"

\* the form Property with the type as it is declared
FormPropertyPlainType(property, schema) ==
    [name |-> property.name, type |-> property.type,
     nullable |-> FormNullable(property, schema), format |-> property.format,
     ref |-> NoText, referenceIsEnum |-> FALSE,
     items |-> NoNested, additionalProperties |-> NoNested,
     isFormField |-> TRUE]

\* the Property of an inline multipart/form-data schema
FormProperty(property, schema) ==
    [name |-> property.name,
     type |-> IF property.format = FBinary THEN TFile ELSE property.type,
     nullable |-> FormNullable(property, schema), format |-> property.format,
     ref |-> NoText, referenceIsEnum |-> FALSE,
     items |-> NoNested, additionalProperties |-> NoNested,
     isFormField |-> TRUE]

\* new RequestComponent / ResponseComponent / ModelComponent.  site tells the two
\* places that allocate components apart: "formData" (pass over the operations)
\* and "schema" (classification loop); it stands for the identity of the object.
Component(name, componentType, required, properties, site) ==
    [name |-> name, componentType |-> componentType, requiredProperties |-> required,
     properties |-> properties, site |-> site]

\* new EnumComponent
EnumComponent(schema) ==
    [name |-> schema.name, values |-> schema.enum, enumNames |-> schema.xEnumNames,
     type |-> IF schema.type = NoText THEN TString ELSE schema.type]

\* `${operationName.charAt(0).toUpperCase()}${operationName.slice(1)}FormDataRequest`
FormSchemaName(operationName) ==
    UpperFirst(operationName) \o <<"F","o","r","m","D","a","t","a","R","e","q","u","e","s","t">>

-----------------------------------------------------------------------------
(* Pass over the operations: usage sets and form-data synthesis.           *)

\* the names the responses loop of one operation adds to responseNames
ResponseRefs(operation) ==
    UNION {{ReferenceName(operation.responses[r].contents[c].ref) :
                c \in {d \in DOMAIN operation.responses[r].contents :
                         /\ operation.responses[r].contents[d].hasSchema
                         /\ operation.responses[r].contents[d].ref # NoText}} :
           r \in DOMAIN operation.responses}

\* the request-body loop of one operation over its content entries, from entry k:
\* acc is [requestNames, requestComponents, formMap, threw]
RECURSIVE ParseRequestContents(_, _, _)
ParseRequestContents(operation, k, acc) ==
    IF acc.threw \/ k > Len(operation.requestContents) THEN acc
    ELSE LET content == operation.requestContents[k]
         IN  IF ~content.hasSchema
             THEN ParseRequestContents(operation, k + 1, acc)
             ELSE IF content.ref = NoText
             THEN IF content.contentType = "multipart/form-data"
                  THEN IF operation.operationId = NoText \/ ~content.hasProperties
                       THEN [acc EXCEPT !.threw = TRUE]
                       ELSE LET formSchemaName == FormSchemaName(operation.operationId)
                                component == Component(formSchemaName, "Request",
                                    IF content.hasRequired THEN content.required ELSE {},
                                    [p \in DOMAIN content.properties |->
                                        FormProperty(content.properties[p], content)],
                                    "formData")
                            IN  ParseRequestContents(operation, k + 1,
                                    [acc EXCEPT
                                        !.requestComponents =
                                            MapSet(@, formSchemaName, component),
                                        !.formMap =
                                            MapSet(@, operation.operationId, formSchemaName)])
                  ELSE ParseRequestContents(operation, k + 1, acc)
             ELSE ParseRequestContents(operation, k + 1,
                     [acc EXCEPT !.requestNames = @ \cup {ReferenceName(content.ref)}])

\* one turn of the inner loop over the operations (Generator.generateApi)
ParseOperation ==
    /\ pc = "parse"
    /\ opIdx <= Len(openApiDocument.paths)
    /\ LET operation == openApiDocument.paths[opIdx]
           acc == ParseRequestContents(operation, 1,
                    [requestNames |-> requestNames,
                     requestComponents |-> requestComponents,
                     formMap |-> endpointToFormRequestNameMap,
                     threw |-> FALSE])
       IN  /\ responseNames' = responseNames \cup ResponseRefs(operation)
           /\ requestNames' = acc.requestNames
           /\ requestComponents' = acc.requestComponents
           /\ endpointToFormRequestNameMap' = acc.formMap
           /\ pc' = IF acc.threw THEN "threw" ELSE "parse"
           /\ opIdx' = opIdx + 1
    /\ UNCHANGED <<configVars, numConfigs, i, documentUrl, openApiDocument, schemaIdx,
                   enumComponents, responseComponents, modelComponents, enumNames,
                   written, clock, run, fetched, previous, client, apiClient>>

-----------------------------------------------------------------------------
(* Enum scan and classification loop.                                      *)

\* for (const [schemaName, schema] of ...) if (schema["enum"]) enumNames.add(schemaName)
EnumScan(schemas) == {schemas[k].name : k \in {j \in DOMAIN schemas : schemas[j].hasEnum}}

\* the enum scan, run once the pass over the operations has ended
ScanForEnums ==
    /\ pc = "parse"
    /\ opIdx > Len(openApiDocument.paths)
    /\ enumNames' = enumNames \cup EnumScan(openApiDocument.schemas)
    /\ pc' = "classify"
    /\ schemaIdx' = 1
    /\ UNCHANGED <<configVars, numConfigs, i, documentUrl, openApiDocument, requestNames,
                   responseNames, opIdx, enumComponents, requestComponents,
                   responseComponents, modelComponents, endpointToFormRequestNameMap,
                   written, clock, run, fetched, previous, client, apiClient>>

\* ComponentKind with the request test ahead of the enum test
ComponentKindRequestFirst(schema, requests, responses) ==
    IF schema.name \in requests THEN "Request"
    ELSE IF schema.hasEnum THEN "Enum"
    ELSE IF schema.name \in responses THEN "Response"
    ELSE "Model"

\* ComponentKind with the response test ahead of the request test
ComponentKindResponseFirst(schema, requests, responses) ==
    IF schema.hasEnum THEN "Enum"
    ELSE IF schema.name \in responses THEN "Response"
    ELSE IF schema.name \in requests THEN "Request"
    ELSE "Model"

\* the branch the classification loop takes for one schema
ComponentKind(schema, requests, responses) ==
    IF schema.hasEnum THEN "Enum"
    ELSE IF schema.name \in requests THEN "Request"
    ELSE IF schema.name \in responses THEN "Response"
    ELSE "Model"

\* one turn of the classification loop
ProcessComponent ==
    /\ pc = "classify"
    /\ schemaIdx <= Len(openApiDocument.schemas)
    /\ LET schema == openApiDocument.schemas[schemaIdx]
           kind == ComponentKind(schema, requestNames, responseNames)
           required == IF schema.hasRequired THEN schema.required ELSE {}
           \* Object.entries(schema["properties"]) throws on a missing properties map
           throws == kind # "Enum" /\ ~schema.hasProperties
           requestProps == [p \in DOMAIN schema.properties |->
                               RequestProperty(schema.properties[p], schema, enumNames)]
           otherProps == [p \in DOMAIN schema.properties |->
                               ResponseProperty(schema.properties[p], schema, enumNames)]
       IN  /\ pc' = IF throws THEN "threw" ELSE "classify"
           /\ enumComponents' =
                IF kind = "Enum"
                THEN MapSet(enumComponents, schema.name, EnumComponent(schema))
                ELSE enumComponents
           /\ requestComponents' =
                IF kind = "Request" /\ ~throws
                THEN MapSet(requestComponents, schema.name,
                        Component(schema.name, "Request", required, requestProps, "schema"))
                ELSE requestComponents
           /\ responseComponents' =
                IF kind = "Response" /\ ~throws
                THEN MapSet(responseComponents, schema.name,
                        Component(schema.name, "Response", required, otherProps, "schema"))
                ELSE responseComponents
           /\ modelComponents' =
                IF kind = "Model" /\ ~throws
                THEN MapSet(modelComponents, schema.name,
                        Component(schema.name, "Model", required, otherProps, "schema"))
                ELSE modelComponents
    /\ schemaIdx' = schemaIdx + 1
    /\ UNCHANGED <<configVars, numConfigs, i, documentUrl, openApiDocument, requestNames,
                   responseNames, opIdx, enumNames, endpointToFormRequestNameMap, written,
                   clock, run, fetched, previous, client, apiClient>>

-----------------------------------------------------------------------------
(* ApiPath.                                                                *)

\* the first content entry of a kind, as content?.["application/json"] reads it
ContentOfType(contents, contentType) ==
    LET hits == {c \in DOMAIN contents : contents[c].contentType = contentType}
    IN  IF hits = {} THEN [contentType |-> contentType, hasSchema |-> FALSE, ref |-> NoText]
        ELSE contents[CHOOSE c \in hits : \A d \in hits : c <= d]

\* new ApiPath({...}) as generateApi builds it for one operation; the operation
\* has at least one response (the read of the first response throws otherwise)
ApiPath(operation, streamedEndpoints, formMap) ==
    LET requestInnerRef ==
            IF operation.hasRequestBody /\ operation.requestContents # <<>>
               /\ operation.requestContents[1].hasSchema
            THEN operation.requestContents[1].ref ELSE NoText
        responseInnerContents == operation.responses[1]
        hasFormRequest == operation.operationId # NoText
                            /\ MapHas(formMap, operation.operationId)
        responseContent == ContentOfType(responseInnerContents.contents, "application/json")
    IN  [endpoint |-> IF StartsWith(operation.endpoint, <<"/">>)
                      THEN Tail(operation.endpoint) ELSE operation.endpoint,
         method |-> operation.method,
         operationId |-> operation.operationId,
         requestComponentName |->
            IF hasFormRequest THEN MapGet(formMap, operation.operationId)
            ELSE ReferenceName(requestInnerRef),
         responseComponentName |->
            IF responseContent.hasSchema THEN ReferenceName(responseContent.ref) ELSE NoText,
         isStreamed |-> operation.endpoint \in streamedEndpoints,
         isFormEndpoint |-> hasFormRequest,
         parameters |-> operation.parameters]

\* get queryParams
queryParams(path) == SelectSeq(path.parameters, LAMBDA param : param.in = "query")

\* get hasQueryParams
hasQueryParams(path) == Len(queryParams(path)) > 0

\* get requestComponent: is there one
hasRequestComponent(path, requests) == MapHas(requests, path.requestComponentName)

\* get responseComponent: is there one
hasResponseComponent(path, responses) == MapHas(responses, path.responseComponentName)

\* get pathParams
pathParams(path) == MatchPathParams(path.endpoint)

\* get hasPathParams
hasPathParams(path) == Len(pathParams(path)) > 0

MethodGet == <<"g","e","t">>
MethodPost == <<"p","o","s","t">>
MethodPut == <<"p","u","t">>
MethodDelete == <<"d","e","l","e","t","e">>
MethodPatch == <<"p","a","t","c","h">>

\* the verb word of the fallback name of a method without a linked component
VerbWord(method) ==
    CASE method = MethodGet -> MethodGet
      [] method = MethodPost -> <<"c","r","e","a","t","e">>
      [] method = MethodPut -> <<"r","e","p","l","a","c","e">>
      [] method = MethodDelete -> MethodDelete
      [] method = MethodPatch -> <<"u","p","d","a","t","e">>

\* get clientMethodName
clientMethodName(path, requests, responses) ==
    LET suffix == IF path.isStreamed THEN <<"S","t","r","e","a","m">> ELSE <<>>
        prefix == IF path.isStreamed THEN <<"*">> ELSE <<>>
        resourceName == stripUrlChars(path.endpoint)
    IN  IF path.operationId # NoText
        THEN prefix \o LowerFirst(stripUrlChars(path.operationId)) \o suffix
        ELSE IF path.method = MethodGet
        THEN IF hasResponseComponent(path, responses)
             THEN prefix
                  \o ReplaceFirst(LowerFirst(MapGet(responses, path.responseComponentName).name),
                                  <<"R","e","s","p","o","n","s","e">>)
                  \o suffix
             ELSE prefix \o MethodGet \o resourceName \o suffix
        ELSE IF hasRequestComponent(path, requests)
             THEN prefix
                  \o ReplaceFirst(LowerFirst(MapGet(requests, path.requestComponentName).name),
                                  <<"R","e","q","u","e","s","t">>)
                  \o suffix
             ELSE prefix \o VerbWord(path.method) \o resourceName \o suffix

\* get capitalizedName (Component and EnumComponent)
capitalizedName(component) == UpperFirst(component.name)

\* dtoName without the Dto suffix, as a RequestComponent overrides it
dtoNameWithoutSuffix(component) == <<"T">> \o capitalizedName(component)

\* get dtoName of a ModelComponent or ResponseComponent
dtoName(component) == <<"T">> \o capitalizedName(component) \o <<"D","t","o">>

\* get dtoName of a RequestComponent
requestDtoName(component) == <<"T">> \o capitalizedName(component)

\* Array.prototype.join(", ")
RECURSIVE JoinComma(_)
JoinComma(parts) ==
    IF parts = <<>> THEN <<>>
    ELSE IF Len(parts) = 1 THEN parts[1]
    ELSE parts[1] \o <<",", " ">> \o JoinComma(Tail(parts))

\* `{ ${this.pathParams.map((param) => `${param}: string`).join(", ")} }`
pathParamType(path) ==
    LET params == pathParams(path)
    IN  <<"{", " ">>
        \o JoinComma([k \in DOMAIN params |-> params[k] \o <<":", " ">> \o TString])
        \o <<" ", "}">>

\* the type of one query parameter in the request type
queryParamType(param) ==
    IF param.schema.format = FDateTime THEN TString
    ELSE IF param.schema.type = TArray THEN param.schema.itemsType \o <<"[", "]">>
    ELSE IF param.schema.type = TInteger THEN TNumber
    ELSE param.schema.type

\* `{ ${this.queryParams.map(...).join(", ")} }`
queryParamsType(path) ==
    LET params == queryParams(path)
    IN  <<"{", " ">>
        \o JoinComma([k \in DOMAIN params |->
                params[k].name \o (IF params[k].required THEN <<>> ELSE <<"?">>)
                \o <<":", " ">> \o queryParamType(params[k])])
        \o <<" ", "}">>

\* get shouldSkipRequest
shouldSkipRequest(path, requests) ==
    /\ hasRequestComponent(path, requests) \/ hasPathParams(path)
    /\ hasRequestComponent(path, requests)
    /\ \A k \in DOMAIN MapGet(requests, path.requestComponentName).properties :
          MapGet(requests, path.requestComponentName).properties[k].name
             \in Range(pathParams(path))

\* get requestStr
requestStr(path, requests) ==
    IF path.method = MethodGet THEN <<>>
    ELSE IF ~hasRequestComponent(path, requests) THEN <<>>
    ELSE IF path.isFormEndpoint THEN <<",", " ", "f","o","r","m","D","a","t","a">>
    ELSE IF shouldSkipRequest(path, requests) THEN <<",", " ", "{", "}">>
    ELSE <<",", " ", "r","e","q","u","e","s","t">>

\* RenderShape with the streamed test ahead of the request test
RenderShapeStreamedFirst(hasRequest, hasResponse, isStreamed) ==
    IF hasResponse /\ isStreamed THEN "RequestAndStreamedResponse"
    ELSE IF hasRequest /\ hasResponse THEN "RequestAndResponse"
    ELSE IF hasRequest THEN "RequestOnly"
    ELSE IF hasResponse THEN "ResponseOnly"
    ELSE "NoRequestNoResponse"

\* the method shape ApiPath.render returns, by the template it calls
RenderShape(hasRequest, hasResponse, isStreamed) ==
    IF hasRequest /\ hasResponse
    THEN IF isStreamed THEN "RequestAndStreamedResponse" ELSE "RequestAndResponse"
    ELSE IF hasRequest THEN "RequestOnly"
    ELSE IF hasResponse THEN "ResponseOnly"
    ELSE "NoRequestNoResponse"

\* hasRequest that leaves the path parameters out
hasRequestWithoutPathParams(path, requests) ==
    hasRequestComponent(path, requests) \/ hasQueryParams(path)

\* const hasRequest = !!this.requestComponent || this.hasPathParams || this.hasQueryParams
hasRequest(path, requests) ==
    hasRequestComponent(path, requests) \/ hasPathParams(path) \/ hasQueryParams(path)

\* ApiPath.render: the template chosen and the values put into it
RenderPath(path, requests, responses) ==
    LET dto0 == IF hasRequestComponent(path, requests)
                THEN requestDtoName(MapGet(requests, path.requestComponentName))
                ELSE TAny
        dto1 == IF hasPathParams(path)
                THEN IF dto0 = TAny THEN pathParamType(path)
                     ELSE pathParamType(path) \o <<" ", "&", " ">> \o dto0
                ELSE dto0
        dto2 == IF hasQueryParams(path)
                THEN IF dto1 = TAny THEN queryParamsType(path)
                     ELSE queryParamsType(path) \o <<" ", "&", " ">> \o dto1
                ELSE dto1
        shape == RenderShape(hasRequest(path, requests),
                             hasResponseComponent(path, responses), path.isStreamed)
        takesRequest == shape \in {"RequestAndStreamedResponse", "RequestAndResponse",
                                   "RequestOnly"}
    IN  [shape |-> shape,
         clientMethodName |-> clientMethodName(path, requests, responses),
         takesRequest |-> takesRequest,
         requestDtoName |-> IF takesRequest THEN dto2 ELSE NoText,
         responseDtoName |->
            IF hasResponseComponent(path, responses)
            THEN dtoName(MapGet(responses, path.responseComponentName)) ELSE TAny,
         finalResponse |->
            IF hasResponseComponent(path, responses)
            THEN capitalizedName(MapGet(responses, path.responseComponentName)) ELSE TAny,
         clientFunctionName |->
            path.method
            \o (IF path.isFormEndpoint THEN <<"F","o","r","m","D","a","t","a">> ELSE <<>>)
            \o (IF shape = "RequestAndStreamedResponse"
                THEN <<"I","t","e","r","a","b","l","e">> ELSE <<>>),
         requestStr |-> IF takesRequest THEN requestStr(path, requests) ELSE <<>>,
         \* `const formData = new FormData();`
         declaresFormData |->
            shape \in {"RequestAndResponse", "RequestOnly"} /\ path.isFormEndpoint,
         \* the fields of the `formData.append("<name>", request.<name>);` lines: the
         \* request-only template writes them without asking isFormEndpoint
         formDataAppends |->
            IF /\ hasRequestComponent(path, requests)
               /\ \/ shape = "RequestAndResponse" /\ path.isFormEndpoint
                  \/ shape = "RequestOnly"
            THEN [k \in DOMAIN MapGet(requests, path.requestComponentName).properties |->
                     MapGet(requests, path.requestComponentName).properties[k].name]
            ELSE <<>>,
         \* `${this.requestComponent?.properties?.map(...).join(...)}` without a request
         \* component: the text undefined
         rendersUndefined |-> shape = "RequestOnly" /\ ~hasRequestComponent(path, requests),
         \* the arguments of this.<clientFunctionName>(...), in order
         callArguments |->
            <<<<"u","r","l">>>>
            \o (IF takesRequest /\ requestStr(path, requests) # <<>>
                THEN <<SubSeq(requestStr(path, requests), 3, Len(requestStr(path, requests)))>>
                ELSE <<>>)
            \o <<<<"o","p","t","i","o","n","s">>>>,
         endpoint |-> path.endpoint,
         isFormEndpoint |-> path.isFormEndpoint,
         isStreamed |-> path.isStreamed]

-----------------------------------------------------------------------------
(* Property: the types and the constructor statement it renders to.  A     *)
(* nested node (items, additionalProperties) is a leaf: it has no items of *)
(* its own, so an array nested in it reads a member of undefined.          *)

\* the read of a member of undefined: the TypeError that ends the run
TypeError == <<"TypeError">>

Undefined == <<"u","n","d","e","f","i","n","e","d">>

\* `${value}` for a value that may be undefined
Interpolate(text) == IF text = NoText THEN Undefined ELSE text

ArrayOf(text) == IF text = TypeError THEN TypeError ELSE text \o <<"[", "]">>

DtoOf(name) == <<"T">> \o Interpolate(name) \o <<"D","t","o">>

\* get isArray
isArray(property) == property.type = TArray

\* get isDictionary
isDictionary(property) == property.type = TObject /\ property.additionalProperties.present

\* get isDate
isDate(property) == property.type = TString /\ property.format = FDateTime

\* get isNumberType
isNumberType(property) == property.type = TNumber \/ property.type = TInteger

\* get referenceComponentName
referenceComponentName(property) == ReferenceName(property.ref)

\* get formattedDtoType of a nested node
NestedFormattedDtoType(nested) ==
    IF nested.ref # NoText
    THEN IF nested.type = TArray THEN TypeError ELSE DtoOf(ReferenceName(nested.ref))
    ELSE IF nested.type = TNumber \/ nested.type = TInteger THEN TNumber
    ELSE IF nested.type = TArray THEN TypeError
    ELSE nested.type

\* get formattedType of a nested node
NestedFormattedType(nested) ==
    IF nested.type = TString /\ nested.format = FDateTime THEN <<"D","a","t","e">>
    ELSE IF nested.type = TNumber \/ nested.type = TInteger THEN TNumber
    ELSE IF nested.ref # NoText
    THEN IF nested.type = TArray THEN TypeError ELSE ReferenceName(nested.ref)
    ELSE IF nested.type = TArray THEN TypeError
    ELSE nested.type

\* `${this.items?.referenceComponentName ?? "???"}[]`
EnumArrayType(property) ==
    (IF property.items.present /\ property.items.ref # NoText
     THEN ReferenceName(property.items.ref) ELSE <<"?","?","?">>) \o <<"[", "]">>

\* get formattedDtoType: the wire type
formattedDtoType(property) ==
    IF isArray(property) /\ property.referenceIsEnum THEN EnumArrayType(property)
    ELSE IF property.referenceIsEnum THEN Interpolate(referenceComponentName(property))
    ELSE IF referenceComponentName(property) # NoText
    THEN IF isArray(property)
         THEN IF property.items.present
              THEN ArrayOf(DtoOf(ReferenceName(property.items.ref))) ELSE TypeError
         ELSE DtoOf(referenceComponentName(property))
    ELSE IF isNumberType(property) THEN TNumber
    ELSE IF isArray(property)
    THEN IF ~property.items.present THEN TypeError
         ELSE IF property.items.ref # NoText
         THEN ArrayOf(DtoOf(ReferenceName(property.items.ref)))
         ELSE IF NestedFormattedDtoType(property.items) = TypeError THEN TypeError
         ELSE ArrayOf(Interpolate(NestedFormattedDtoType(property.items)))
    ELSE IF isDictionary(property)
    THEN IF NestedFormattedDtoType(property.additionalProperties) = TypeError THEN TypeError
         ELSE <<"R","e","c","o","r","d","<","s","t","r","i","n","g",",", " ">>
              \o (IF NestedFormattedDtoType(property.additionalProperties) = NoText
                  THEN TAny ELSE NestedFormattedDtoType(property.additionalProperties))
              \o <<">">>
    ELSE property.type

\* get formattedType: the domain type
formattedType(property) ==
    IF isDate(property) THEN <<"D","a","t","e">>
    ELSE IF isNumberType(property) THEN TNumber
    ELSE IF isArray(property) /\ property.referenceIsEnum THEN EnumArrayType(property)
    ELSE IF property.referenceIsEnum THEN Interpolate(referenceComponentName(property))
    ELSE IF referenceComponentName(property) # NoText
    THEN IF isArray(property)
         THEN IF property.items.present
              THEN ArrayOf(Interpolate(ReferenceName(property.items.ref))) ELSE TypeError
         ELSE referenceComponentName(property)
    ELSE IF isArray(property)
    THEN IF ~property.items.present THEN TypeError
         ELSE IF property.items.ref # NoText
         THEN ArrayOf(ReferenceName(property.items.ref))
         ELSE IF NestedFormattedType(property.items) = TypeError THEN TypeError
         ELSE ArrayOf(Interpolate(NestedFormattedType(property.items)))
    ELSE IF isDictionary(property)
    THEN IF NestedFormattedType(property.additionalProperties) = TypeError THEN TypeError
         ELSE <<"M","a","p","<","s","t","r","i","n","g",",", " ">>
              \o (IF NestedFormattedType(property.additionalProperties) = NoText
                  THEN TAny ELSE NestedFormattedType(property.additionalProperties))
              \o <<">">>
    ELSE property.type

\* get renderName
renderName(property) ==
    IF property.isFormField THEN LowerFirst(property.name) ELSE property.name

\* ConstructorStatement that copies every wire value as it is
ConstructorStatementAssignOnly(property) == [kind |-> "assign", className |-> NoText]

\* the statement Component.render puts into the constructor of the value class for
\* one property: which form it has and which class it constructs
ConstructorStatement(property) ==
    IF isDate(property)
    THEN [kind |-> IF property.nullable THEN "dateOrUndefined" ELSE "date",
          className |-> <<"D","a","t","e">>]
    ELSE IF referenceComponentName(property) # NoText /\ ~property.referenceIsEnum
    THEN [kind |-> IF property.nullable THEN "referenceOrUndefined" ELSE "reference",
          className |-> referenceComponentName(property)]
    ELSE IF /\ isArray(property) /\ ~property.referenceIsEnum
            /\ property.items.present /\ property.items.ref # NoText
            /\ ~property.items.referenceIsEnum
    THEN [kind |-> IF property.nullable THEN "optionalMap" ELSE "map",
          className |-> ReferenceName(property.items.ref)]
    ELSE IF isDictionary(property)
    THEN IF property.additionalProperties.type = TArray
         THEN IF property.additionalProperties.ref # NoText
                 /\ ~property.additionalProperties.referenceIsEnum
              THEN [kind |-> "dictionaryOfArraysOfClass", className |-> Undefined]
              ELSE [kind |-> "dictionaryOfArrays", className |-> NoText]
         ELSE IF NestedFormattedType(property.additionalProperties) # NoText
         THEN [kind |-> "dictionaryOfClass",
               className |-> NestedFormattedType(property.additionalProperties)]
         ELSE [kind |-> "dictionary", className |-> NoText]
    ELSE [kind |-> "assign", className |-> NoText]

\* Property.render and Property.renderAsDto, and the constructor statement
RenderProperty(property) ==
    [name |-> renderName(property),
     optional |-> property.nullable,
     domainType |-> Interpolate(formattedType(property)),
     wireType |-> Interpolate(formattedDtoType(property)),
     construct |-> ConstructorStatement(property)]

\* Property.render alone, as RequestComponent.render uses it
RenderRequestProperty(property) ==
    [name |-> renderName(property),
     optional |-> property.nullable,
     domainType |-> Interpolate(formattedType(property))]

\* rendering the component reads a member of undefined
RenderThrows(component, isRequest) ==
    \E k \in DOMAIN component.properties :
        \/ formattedType(component.properties[k]) = TypeError
        \/ ~isRequest /\ formattedDtoType(component.properties[k]) = TypeError

-----------------------------------------------------------------------------
(* Component renderers: the declarations each render() emits.              *)

\* Component.render (ModelComponent, ResponseComponent): the wire type alias of
\* renderDto and the value class
RenderComponent(component) ==
    [typeAlias |-> dtoName(component),
     hasClass |-> TRUE,
     className |-> capitalizedName(component),
     ofComponent |-> component.name,
     properties |-> [k \in DOMAIN component.properties |->
                        RenderProperty(component.properties[k])]]

\* RequestComponent.render: `export type T${this.name} = { ... };`
RenderRequestComponent(component) ==
    [typeAlias |-> <<"T">> \o component.name,
     hasClass |-> FALSE,
     className |-> NoText,
     ofComponent |-> component.name,
     properties |-> [k \in DOMAIN component.properties |->
                        RenderRequestProperty(component.properties[k])]]

\* getEnumName(index): this.enumNames?.[index] ?? this.values[index]
getEnumName(component, index) ==
    IF component.enumNames.present /\ index \in DOMAIN component.enumNames.names
    THEN component.enumNames.names[index]
    ELSE component.values[index]

\* a value without quotes
formatValueUnquoted(component, value) == value

\* formatValue(value)
formatValue(component, value) ==
    IF component.type \in {TInteger, TNumber, <<"i","n","t","3","2">>, <<"i","n","t","6","4">>}
    THEN value
    ELSE <<"\"">> \o value \o <<"\"">>

\* EnumComponent.render: `export enum ${this.capitalizedName} { ... }`, one
\* `label = value` entry per value
RenderEnumComponent(component) ==
    [enumName |-> capitalizedName(component),
     ofComponent |-> component.name,
     entries |-> [k \in DOMAIN component.values |->
                    [label |-> getEnumName(component, k),
                     value |-> formatValue(component, component.values[k])]]]

-----------------------------------------------------------------------------
(* Generator.generate and the rest of Generator.generateApi.               *)

\* const configProvider = new ConfigProvider(); await configProvider.preload();
\* const numConfigs = await configProvider.getNumberOfUserConfigs();
Preload ==
    /\ pc = "start"
    /\ apiIndex' = 0
    /\ userApiConfigs' = getUserApiConfigs(NotLoaded, configFile)
    /\ userConfig' = getUserConfig(NotLoaded, userApiConfigs', apiIndex')
    /\ numConfigs' = IF userApiConfigs'.set THEN Len(userApiConfigs'.apis) ELSE 0
    /\ i' = 0
    /\ pc' = "loop"
    /\ UNCHANGED <<configFile, defaultConfig, documentUrl, openApiDocument,
                   requestNames, responseNames, opIdx, schemaIdx, collectionVars, written,
                   clock, run, fetched, previous, client, apiClient>>

\* BeginApi without the clear() calls
BeginApiWithoutClear ==
    /\ pc = "loop"
    /\ i < numConfigs
    /\ apiIndex' = i
    /\ pc' = "generateApi"
    /\ UNCHANGED <<configFile, defaultConfig, userApiConfigs, userConfig, numConfigs, i,
                   documentUrl, openApiDocument, requestNames, responseNames, opIdx,
                   schemaIdx, collectionVars, written, clock, run, fetched, previous, client, apiClient>>

\* the head of one turn of the loop of generate: apiIndex = i and the six clear() calls
BeginApi ==
    /\ pc = "loop"
    /\ i < numConfigs
    /\ apiIndex' = i
    /\ enumComponents' = <<>>
    /\ requestComponents' = <<>>
    /\ responseComponents' = <<>>
    /\ modelComponents' = <<>>
    /\ enumNames' = {}
    /\ endpointToFormRequestNameMap' = <<>>
    /\ pc' = "generateApi"
    /\ UNCHANGED <<configFile, defaultConfig, userApiConfigs, userConfig, numConfigs, i,
                   documentUrl, openApiDocument, requestNames, responseNames, opIdx,
                   schemaIdx, written, clock, run, fetched, previous, client, apiClient>>

\* the loop of generate has run through every configured source
Finish ==
    /\ pc = "loop"
    /\ i >= numConfigs
    /\ pc' = "done"
    /\ UNCHANGED <<configVars, numConfigs, i, documentUrl, openApiDocument, requestNames,
                   responseNames, opIdx, schemaIdx, collectionVars, written, clock, run,
                   fetched, previous, client, apiClient>>

\* what one call of fetch came to: the promise rejected, or a response that is ok
\* (with the document response.json() yields) or not
NoDocument == [paths |-> <<>>, hasComponents |-> FALSE, schemas |-> <<>>]

Answer(kind, document) == [kind |-> kind, document |-> document]

\* generateApi up to the document: getValue("openApiJsonDocumentUrl"), fetch, json
FetchFrom(documents) ==
    /\ pc = "generateApi"
    /\ userApiConfigs' = getUserApiConfigs(userApiConfigs, configFile)
    /\ userConfig' = getUserConfig(userConfig, userApiConfigs', apiIndex)
    /\ LET url == getValue("openApiJsonDocumentUrl")
       IN  IF url.threw
           THEN /\ pc' = "threw"
                /\ UNCHANGED <<i, documentUrl, openApiDocument, requestNames,
                               responseNames, opIdx, schemaIdx, fetched>>
           ELSE /\ documentUrl' = url.value
                \* the fetch rejects
                /\ \/ /\ pc' = "threw"
                      /\ fetched' = Append(fetched, Answer("rejected", NoDocument))
                      /\ UNCHANGED <<i, openApiDocument, requestNames, responseNames,
                                     opIdx, schemaIdx>>
                \* !response.ok: this source is given up, the loop goes on
                   \/ /\ pc' = "loop"
                      /\ i' = i + 1
                      /\ fetched' = Append(fetched, Answer("notOk", NoDocument))
                      /\ UNCHANGED <<openApiDocument, requestNames, responseNames,
                                     opIdx, schemaIdx>>
                \* the document arrives
                   \/ /\ \E document \in documents : openApiDocument' = document
                      /\ fetched' = Append(fetched, Answer("ok", openApiDocument'))
                      /\ requestNames' = {}
                      /\ responseNames' = {}
                      /\ opIdx' = 1
                      /\ schemaIdx' = 1
                      /\ pc' = "parse"
                      /\ UNCHANGED i
    /\ UNCHANGED <<configFile, defaultConfig, apiIndex, numConfigs, collectionVars, written,
                   clock, run, previous, client, apiClient>>

\* the text generateApi assembles, as the declarations and methods it holds
OutputText(url, streamedEndpoints, clientName, baseUrl) ==
    [generatedOn |-> clock,
     documentUrl |-> url,
     requests |-> [c \in DOMAIN requestComponents |->
                      RenderRequestComponent(requestComponents[c].value)],
     responses |-> [c \in DOMAIN responseComponents |->
                      RenderComponent(responseComponents[c].value)],
     enums |-> [c \in DOMAIN enumComponents |->
                      RenderEnumComponent(enumComponents[c].value)],
     models |-> [c \in DOMAIN modelComponents |->
                      RenderComponent(modelComponents[c].value)],
     clientName |-> clientName,
     baseUrl |-> IF StartsWith(baseUrl, <<"h","t","t","p">>)
                 THEN <<"\"">> \o baseUrl \o <<"\"">> ELSE baseUrl,
     methods |-> [o \in DOMAIN openApiDocument.paths |->
                      RenderPath(ApiPath(openApiDocument.paths[o], streamedEndpoints,
                                         endpointToFormRequestNameMap),
                                 requestComponents, responseComponents)]]

\* generateApi after the classification loop: the declarations, the ApiPath of
\* every operation, the client class, and the write of the file
GenerateClientCode ==
    /\ pc = "classify"
    /\ schemaIdx > Len(openApiDocument.schemas)
    /\ LET streamedEndpoints == getValue("streamedEndpoints")
           clientName == getValue("clientName")
           baseUrl == getValue("clientBaseUrlValue")
           outputPath == getValue("outputBaseDirectory")
           \* Object.values(operation.responses)[0].content on an operation without responses
           noResponse == \E o \in DOMAIN openApiDocument.paths :
                            openApiDocument.paths[o].responses = <<>>
           \* a render() that reads a member of undefined
           renderThrew ==
                \/ \E c \in DOMAIN requestComponents :
                      RenderThrows(requestComponents[c].value, TRUE)
                \/ \E c \in DOMAIN responseComponents :
                      RenderThrows(responseComponents[c].value, FALSE)
                \/ \E c \in DOMAIN modelComponents :
                      RenderThrows(modelComponents[c].value, FALSE)
           threw == \/ renderThrew
                    \/ streamedEndpoints.threw
                    \/ noResponse
                    \/ clientName.threw
                    \/ baseUrl.threw
                    \/ outputPath.threw
       IN  IF threw
           THEN /\ pc' = "threw"
                /\ UNCHANGED <<i, written>>
           ELSE /\ written' = Append(written,
                        [key |-> [directory |-> outputPath.value, file |-> clientName.value],
                         value |-> OutputText(documentUrl, streamedEndpoints.value,
                                              clientName.value, baseUrl.value),
                         turn |-> i])
                /\ pc' = "loop"
                /\ i' = i + 1
    /\ clock' = clock + 1
    /\ UNCHANGED <<configVars, numConfigs, documentUrl, openApiDocument, requestNames,
                   responseNames, opIdx, schemaIdx, collectionVars, run, fetched, previous, client, apiClient>>

-----------------------------------------------------------------------------
(* ApiClient: one call of a generated awaited method on the runtime.  A JS *)
(* value is known by its kind: "undefined", "object", "null", "zero".       *)

FormDataSuffix == <<"F","o","r","m","D","a","t","a">>

\* the awaited request functions ApiClient has
RuntimeVerbs == {MethodGet, MethodPost, MethodPost \o FormDataSuffix, MethodPut,
                 MethodPatch, MethodDelete}

\* JSON.parse(text), on the texts {}, null, 0 and texts that are no JSON
JSONParse(text) ==
    IF text = <<"{", "}">> THEN [threw |-> FALSE, value |-> "object"]
    ELSE IF text = <<"n","u","l","l">> THEN [threw |-> FALSE, value |-> "null"]
    ELSE IF text = <<"0">> THEN [threw |-> FALSE, value |-> "zero"]
    ELSE [threw |-> TRUE, value |-> "undefined"]

\* buildRequestOptions and buildHeaders throw: a response type other than Json,
\* or a bearer token asked for and not provided
RequestThrows(options) ==
    \/ ~options.expectsJson
    \/ options.useBearerToken /\ ~options.tokenProvided

\* if (!response.ok) return { data: undefined, response }: every verb but delete
ReturnsOnNotOk(verb) == verb # MethodDelete

\* get / post / postFormData / put / patch / delete, from the response on
VerbResult(verb, options, response) ==
    IF ReturnsOnNotOk(verb) /\ ~response.ok THEN [threw |-> FALSE, data |-> "undefined"]
    ELSE IF options.skipJsonParsing \/ response.text = NoText
    THEN [threw |-> FALSE, data |-> "undefined"]
    ELSE IF JSONParse(response.text).threw THEN [threw |-> TRUE, data |-> "undefined"]
    ELSE [threw |-> FALSE, data |-> JSONParse(response.text).value]

\* the pair a generated awaited method returns, by its template
MethodResult(shape, response, data) ==
    IF shape \in {"RequestAndResponse", "ResponseOnly"}
    THEN IF ~response.ok \/ data # "object"
         THEN [first |-> "null", second |-> response]
         ELSE [first |-> "instance", second |-> response]
    ELSE [first |-> "null", second |-> response]

NoResponse == [received |-> FALSE, ok |-> FALSE, text |-> NoText]

NoResult == [first |-> "none", second |-> NoResponse]

\* no call is under way
NoCall ==
    [pc |-> "idle", shape |-> "NoRequestNoResponse", clientFunctionName |-> MethodGet,
     options |-> [skipJsonParsing |-> FALSE, expectsJson |-> TRUE,
                  useBearerToken |-> FALSE, tokenProvided |-> FALSE],
     response |-> NoResponse, data |-> "undefined", result |-> NoResult]

\* the generated method calls this.<clientFunctionName>(...): the function is
\* missing, or the request is not sent, or fetch rejects, or a response arrives
ClientSend(responses) ==
    /\ client.pc = "called"
    /\ IF client.clientFunctionName \notin RuntimeVerbs \/ RequestThrows(client.options)
       THEN client' = [client EXCEPT !.pc = "threw"]
       ELSE \/ client' = [client EXCEPT !.pc = "threw"]
            \/ \E response \in responses :
                  client' = [client EXCEPT !.pc = "answered", !.response = response]
    /\ UNCHANGED <<generatorVars, apiClient>>

\* the rest of the verb
ClientVerbReturns ==
    /\ client.pc = "answered"
    /\ LET r == VerbResult(client.clientFunctionName, client.options, client.response)
       IN  client' = IF r.threw THEN [client EXCEPT !.pc = "threw"]
                     ELSE [client EXCEPT !.pc = "verbReturned", !.data = r.data]
    /\ UNCHANGED <<generatorVars, apiClient>>

\* the rest of the generated method
ClientMethodReturns ==
    /\ client.pc = "verbReturned"
    /\ client' = [client EXCEPT !.pc = "returned",
                      !.result = MethodResult(client.shape, client.response, client.data)]
    /\ UNCHANGED <<generatorVars, apiClient>>

-----------------------------------------------------------------------------
(* The headers of one ApiClient: setHeader, buildRequestOptions and         *)
(* buildHeaders.  basicHeaders is empty (the class never fills it) and the  *)
(* bearer token is not asked for (useBearerToken is false by default).      *)

\* how many requests one ApiClient makes
MaxRequests == 3

\* the header names a caller uses
HeaderKeys == {"a", "b"}

\* a key an object does not hold
NoHeader == "none"

\* the enum HeaderType
HeaderTypes == {"Transient", "Persistent"}

\* the value a caller gives a header of each kind
HeaderValue(headerType) == IF headerType = "Transient" THEN "T" ELSE "P"

\* the value of a header the caller writes into requestHeaders
RequestValue == "R"

\* an object without keys
NoHeaders == [key \in HeaderKeys |-> NoHeader]

\* the objects a caller passes as requestHeaders
RequestHeaderObjects == [HeaderKeys -> {NoHeader, RequestValue}]

\* no options are passed
NoOptions == [passed |-> FALSE, hasRequestHeaders |-> FALSE, requestHeaders |-> NoHeaders]

\* for (const [key, value] of Object.entries(from)) if (!headers[key]) headers[key] = value
FillHeaders(headers, from) ==
    [key \in HeaderKeys |->
        IF headers[key] = NoHeader THEN from[key] ELSE headers[key]]

\* what the for loops of buildHeaders leave in headers
buildHeaders(options, transientHeaders, persistentHeaders) ==
    LET headers == IF options.passed /\ options.hasRequestHeaders
                   THEN options.requestHeaders ELSE NoHeaders
    IN  FillHeaders(FillHeaders(headers, transientHeaders), persistentHeaders)

\* the options object after buildRequestOptions and buildHeaders: headers is
\* options.requestHeaders itself when the caller passed one, and a new object else
OptionsAfter(options, headers) ==
    IF options.passed /\ options.hasRequestHeaders
    THEN [options EXCEPT !.requestHeaders = headers]
    ELSE options

\* the headers the caller asked for: its own requestHeaders first, then what
\* setHeader set as Transient since the last request, then what is Persistent
HeadersAskedFor(own, transientSince, persistentSet) ==
    [key \in HeaderKeys |->
        IF own[key] # NoHeader THEN own[key]
        ELSE IF transientSince[key] # NoHeader THEN transientSince[key]
        ELSE persistentSet[key]]

\* a new ApiClient, and a caller that holds no options object of its own.
\* shared is the one options object the caller keeps and passes again, and
\* sharedOwn the requestHeaders the caller wrote into it; transientSince is
\* what setHeader set as Transient since the last request; sent and asked
\* are the headers of the last request and the ones the caller asked for
NewApiClient ==
    [transientHeaders |-> NoHeaders, persistentHeaders |-> NoHeaders,
     shared |-> NoOptions, sharedOwn |-> NoHeaders, sharedUses |-> 0,
     transientSince |-> NoHeaders,
     requests |-> 0, last |-> "none", sent |-> NoHeaders, asked |-> NoHeaders]

\* setHeader(key, value, headerType)
setHeader(key, headerType) ==
    /\ apiClient.requests < MaxRequests
    /\ apiClient' =
         IF headerType = "Transient"
         THEN [apiClient EXCEPT !.transientHeaders[key] = HeaderValue(headerType),
                                !.transientSince[key] = HeaderValue(headerType),
                                !.last = "setHeader"]
         ELSE [apiClient EXCEPT !.persistentHeaders[key] = HeaderValue(headerType),
                                !.last = "setHeader"]
    /\ UNCHANGED <<generatorVars, client>>

\* one request with the options given, whose requestHeaders the caller wrote as own
Request(options, own, isShared) ==
    LET headers == buildHeaders(options, apiClient.transientHeaders,
                                apiClient.persistentHeaders)
    IN  apiClient' =
          [apiClient EXCEPT
              !.transientHeaders = NoHeaders,
              !.transientSince = NoHeaders,
              !.shared = IF isShared THEN OptionsAfter(options, headers) ELSE @,
              !.sharedUses = IF isShared THEN @ + 1 ELSE @,
              !.requests = @ + 1,
              !.last = IF isShared THEN "shared" ELSE "own",
              !.sent = headers,
              !.asked = HeadersAskedFor(own, apiClient.transientSince,
                                        apiClient.persistentHeaders)]

\* a request with no options, or with an options object made for this request
RequestWithOwnOptions ==
    /\ apiClient.requests < MaxRequests
    /\ \/ Request(NoOptions, NoHeaders, FALSE)
       \/ \E hasRequestHeaders \in BOOLEAN, requestHeaders \in RequestHeaderObjects :
             /\ ~hasRequestHeaders => requestHeaders = NoHeaders
             /\ Request([passed |-> TRUE, hasRequestHeaders |-> hasRequestHeaders,
                         requestHeaders |-> requestHeaders], requestHeaders, FALSE)
    /\ UNCHANGED <<generatorVars, client>>

\* the caller makes the options object it keeps
MakeSharedOptions ==
    /\ ~apiClient.shared.passed
    /\ \E requestHeaders \in RequestHeaderObjects :
          apiClient' = [apiClient EXCEPT
                           !.shared = [passed |-> TRUE, hasRequestHeaders |-> TRUE,
                                       requestHeaders |-> requestHeaders],
                           !.sharedOwn = requestHeaders,
                           !.last = "made"]
    /\ UNCHANGED <<generatorVars, client>>

\* a request with the options object the caller keeps
RequestWithSharedOptions ==
    /\ apiClient.requests < MaxRequests
    /\ apiClient.shared.passed
    /\ Request(apiClient.shared, apiClient.sharedOwn, TRUE)
    /\ UNCHANGED <<generatorVars, client>>

-----------------------------------------------------------------------------
(* Bounds and the inputs drawn within them.                                *)

MaxSchemas == 2

MaxOps == 1

MaxProps == 1

NumApis == 2

\* every sequence over S of length at most n
SeqsUpTo(S, n) == UNION {[1..k -> S] : k \in 0..n}

Widget == <<"W","i","d","g","e","t">>
Color == <<"C","o","l","o","r">>
UpFormDataRequest == <<"U","p","F","o","r","m","D","a","t","a","R","e","q","u","e","s","t">>
Up == <<"u","p">>
Tag == <<"t","a","g">>
Kind == <<"k","i","n","d">>
WidgetsEndpoint == <<"/","w","i","d","g","e","t","s">>
WidgetsIdEndpoint == <<"/","w","i","d","g","e","t","s","/","{","i","d","}">>
WidgetsKeyEndpoint == <<"/","w","i","d","g","e","t","s","/","{","a","-","b","}">>

PropNames == <<Tag, Kind>>

NoRawNested == [present |-> FALSE, type |-> NoText, format |-> NoText, ref |-> NoText]

NoOneOf == [present |-> FALSE, ref |-> NoText]

RawItems(type, ref) == [present |-> TRUE, type |-> type, format |-> NoText, ref |-> ref]

RawProperty(name, type, nullable, format, ref, items) ==
    [name |-> name, type |-> type, nullable |-> nullable, format |-> format, ref |-> ref,
     items |-> items, additionalProperties |-> NoRawNested, oneOf |-> NoOneOf]

Nullables == {"absent", "true", "false"}

\* a string, a reference to Color, an array of references to Color
SchemaProperties(name) ==
    {RawProperty(name, TString, n, NoText, NoText, NoRawNested) : n \in Nullables}
    \cup {RawProperty(name, NoText, n, NoText, SchemaRef(Color), NoRawNested) : n \in Nullables}
    \cup {RawProperty(name, TArray, n, NoText, NoText, RawItems(NoText, SchemaRef(Color))) :
            n \in Nullables}

\* a binary file field, a string field
FormProperties(name) ==
    {RawProperty(name, TString, n, FBinary, NoText, NoRawNested) : n \in Nullables}
    \cup {RawProperty(name, TString, n, NoText, NoText, NoRawNested) : n \in Nullables}

\* the property lists of at most MaxProps properties, the k-th called PropNames[k]
PropertyLists(properties(_)) ==
    UNION {{l \in [1..k -> UNION {properties(PropNames[j]) : j \in 1..k}] :
                \A j \in 1..k : l[j].name = PropNames[j]} :
           k \in 0..MaxProps}

Requireds == {[has |-> FALSE, names |-> {}], [has |-> TRUE, names |-> {Tag}]}

EnumSchema(name) ==
    [name |-> name, hasEnum |-> TRUE, enum |-> <<<<"0">>, <<"1">>>>,
     xEnumNames |-> [present |-> FALSE, names |-> <<>>], type |-> TInteger,
     hasProperties |-> FALSE, properties |-> <<>>, hasRequired |-> FALSE, required |-> {}]

ObjectSchema(name, hasProperties, properties, required) ==
    [name |-> name, hasEnum |-> FALSE, enum |-> <<>>,
     xEnumNames |-> [present |-> FALSE, names |-> <<>>], type |-> TObject,
     hasProperties |-> hasProperties, properties |-> properties,
     hasRequired |-> required.has, required |-> required.names]

NoContent == <<>>

JsonRef(name) ==
    <<[contentType |-> "application/json", hasSchema |-> TRUE, ref |-> SchemaRef(name)]>>

RequestRef(name) ==
    <<[contentType |-> "application/json", hasSchema |-> TRUE, ref |-> SchemaRef(name),
       hasProperties |-> FALSE, properties |-> <<>>, hasRequired |-> FALSE, required |-> {}]>>

InlineForm(properties, required) ==
    <<[contentType |-> "multipart/form-data", hasSchema |-> TRUE, ref |-> NoText,
       hasProperties |-> TRUE, properties |-> properties,
       hasRequired |-> required.has, required |-> required.names]>>

Operation(endpoint, method, operationId, parameters, requestContents, responseContents) ==
    [endpoint |-> endpoint, method |-> method, operationId |-> operationId,
     parameters |-> parameters,
     hasRequestBody |-> requestContents # NoContent, requestContents |-> requestContents,
     responses |-> <<[code |-> "200", contents |-> responseContents]>>]

Document(paths, schemas) ==
    [paths |-> paths, hasComponents |-> schemas # <<>>, schemas |-> schemas]

DistinctNames(schemas) ==
    \A a, b \in DOMAIN schemas : schemas[a].name = schemas[b].name => a = b

\* documents that vary the names, the enum keyword and the usage of the schemas
SchemaNames == {Widget, Color, UpFormDataRequest}

NameSchemas ==
    {EnumSchema(n) : n \in SchemaNames}
    \cup {ObjectSchema(n, TRUE, <<>>, [has |-> FALSE, names |-> {}]) : n \in SchemaNames}
    \cup {ObjectSchema(n, FALSE, <<>>, [has |-> FALSE, names |-> {}]) : n \in SchemaNames}

NameOperations ==
    {Operation(WidgetsEndpoint, MethodPost, id, <<>>, req, resp) :
        id \in {Up},
        req \in {NoContent, InlineForm(<<>>, [has |-> FALSE, names |-> {}])}
                \cup {RequestRef(n) : n \in SchemaNames},
        resp \in {NoContent, JsonRef(Widget), JsonRef(Color)}}
    \cup {Operation(WidgetsEndpoint, MethodPost, NoText, <<>>,
                    InlineForm(<<>>, [has |-> FALSE, names |-> {}]), NoContent)}

NameDocuments ==
    {Document(paths, schemas) :
        paths \in SeqsUpTo(NameOperations, MaxOps),
        schemas \in {l \in SeqsUpTo(NameSchemas, MaxSchemas) : DistinctNames(l)}}

\* documents that vary the properties of Widget, and of an inline form, around Color
PropertySchemaLists ==
    UNION {{<<w, c>>, <<c, w>>, <<w>>} :
        w \in {ObjectSchema(Widget, TRUE, l, r) :
                 l \in PropertyLists(SchemaProperties), r \in Requireds},
        c \in {EnumSchema(Color), ObjectSchema(Color, TRUE, <<>>, [has |-> FALSE, names |-> {}])}}

PropertyDocuments ==
    {Document(paths, schemas) :
        paths \in {<<>>,
                   <<Operation(WidgetsEndpoint, MethodPost, Up, <<>>, RequestRef(Widget), NoContent)>>,
                   <<Operation(WidgetsEndpoint, MethodGet, Up, <<>>, NoContent, JsonRef(Widget))>>},
        schemas \in PropertySchemaLists}
    \cup {Document(<<Operation(WidgetsEndpoint, MethodPost, Up, <<>>, InlineForm(l, r), NoContent)>>,
                   <<EnumSchema(Color)>>) :
            l \in PropertyLists(FormProperties), r \in Requireds}

ClassifyDocuments == NameDocuments \cup PropertyDocuments


\* documents that vary one operation over a fixed set of schemas, whose names
\* begin with a capital letter (upper) or not
CreateWidgetRequest == <<"C","r","e","a","t","e">> \o Widget \o <<"R","e","q","u","e","s","t">>
WidgetResponse == Widget \o <<"R","e","s","p","o","n","s","e">>
Id == <<"i","d">>
Q == <<"q">>
File == <<"f","i","l","e">>

NameAs(upper, name) == IF upper THEN name ELSE LowerFirst(name)

RenderSchemas(upper) ==
    <<ObjectSchema(NameAs(upper, CreateWidgetRequest), TRUE,
                   <<RawProperty(Id, TString, "absent", NoText, NoText, NoRawNested)>>,
                   [has |-> FALSE, names |-> {}]),
      ObjectSchema(NameAs(upper, WidgetResponse), TRUE, <<>>, [has |-> FALSE, names |-> {}]),
      ObjectSchema(NameAs(upper, Widget), TRUE, <<>>, [has |-> FALSE, names |-> {}]),
      EnumSchema(NameAs(upper, Color))>>

QueryParameter ==
    [in |-> "query", name |-> Q, required |-> FALSE,
     schema |-> [type |-> TString, format |-> NoText, itemsType |-> NoText]]

Methods == {MethodGet, MethodPost, MethodPut, MethodDelete, MethodPatch}

RenderOperations(upper) ==
    {Operation(endpoint, method, id, parameters, req, resp) :
        endpoint \in {WidgetsEndpoint, WidgetsIdEndpoint, WidgetsKeyEndpoint},
        method \in Methods,
        id \in {NoText, Up},
        parameters \in {<<>>, <<QueryParameter>>},
        req \in {NoContent,
                 RequestRef(NameAs(upper, CreateWidgetRequest)),
                 InlineForm(<<RawProperty(File, TString, "absent", FBinary, NoText, NoRawNested)>>,
                            [has |-> FALSE, names |-> {}])},
        resp \in {NoContent,
                  JsonRef(NameAs(upper, WidgetResponse)),
                  JsonRef(NameAs(upper, Color))}}

RenderDocuments ==
    UNION {{Document(<<operation>>, RenderSchemas(upper)) :
                operation \in RenderOperations(upper)} : upper \in BOOLEAN}

\* documents the sources of a whole run serve
GenerateDocuments ==
    {Document(<<>>, <<>>),
     Document(<<Operation(WidgetsEndpoint, MethodGet, NoText, <<>>, NoContent, JsonRef(Widget))>>,
              <<ObjectSchema(Widget, TRUE, <<>>, [has |-> FALSE, names |-> {}])>>),
     Document(<<Operation(WidgetsEndpoint, MethodPost, Up, <<>>,
                          InlineForm(<<>>, [has |-> FALSE, names |-> {}]), NoContent)>>,
              <<EnumSchema(Color)>>)}

\* configurations
ClientA == <<"A">>
ClientB == <<"B">>
BaseUrl == <<"h","t","t","p",":","a">>

ApiConfig(url, clientName, streamedEndpoints) ==
    [openApiJsonDocumentUrl |-> url, clientName |-> clientName,
     clientBaseUrlValue |-> BaseUrl, outputBaseDirectory |-> "out",
     streamedEndpoints |-> streamedEndpoints]

ApiConfigs ==
    {ApiConfig(url, clientName, {}) : url \in {"u1", "u2"}, clientName \in {ClientA, ClientB}}
    \cup {ApiConfig("u1", ClientA, {WidgetsEndpoint})}
    \cup {[openApiJsonDocumentUrl |-> "u2", clientName |-> ClientB,
           clientBaseUrlValue |-> BaseUrl, outputBaseDirectory |-> "out"]}
    \cup {[openApiJsonDocumentUrl |-> "u1",
           clientBaseUrlValue |-> BaseUrl, outputBaseDirectory |-> "out"]}

ConfigFiles ==
    {[exists |-> FALSE, apis |-> <<>>]}
    \cup {[exists |-> TRUE, apis |-> apis] : apis \in SeqsUpTo(ApiConfigs, NumApis)}

\* the defaults of default-config.js
DefaultConfigs == {[streamedEndpoints |-> {}], [outputBaseDirectory |-> "out"]}

-----------------------------------------------------------------------------
(* Specifications.                                                         *)

EmptyDocument == Document(<<>>, <<>>)

\* before the first call of generate there is no previous call
NoPrevious == [fetched |-> <<>>, written |-> <<>>]

\* a whole run of Generator.generate, from the construction of the provider
Init ==
    /\ pc = "start"
    /\ configFile \in ConfigFiles
    /\ defaultConfig \in DefaultConfigs
    /\ apiIndex = 0
    /\ userApiConfigs = NotLoaded
    /\ userConfig = NotLoaded
    /\ numConfigs = 0
    /\ i = 0
    /\ documentUrl = ""
    /\ openApiDocument = EmptyDocument
    /\ requestNames = {}
    /\ responseNames = {}
    /\ opIdx = 1
    /\ schemaIdx = 1
    /\ enumComponents = <<>>
    /\ requestComponents = <<>>
    /\ responseComponents = <<>>
    /\ modelComponents = <<>>
    /\ enumNames = {}
    /\ endpointToFormRequestNameMap = <<>>
    /\ written = <<>>
    /\ clock = 0
    /\ run = 1
    /\ fetched = <<>>
    /\ previous = NoPrevious
    /\ client = NoCall
    /\ apiClient = NewApiClient

FetchDocument == FetchFrom(GenerateDocuments)

Next ==
    \/ Preload
    \/ BeginApi
    \/ FetchDocument
    \/ ParseOperation
    \/ ScanForEnums
    \/ ProcessComponent
    \/ GenerateClientCode
    \/ Finish

Spec == Init /\ [][Next]_vars

\* generateApi of the only configured source, from the arrival of its document
InitApi(config, documents) ==
    /\ pc = "parse"
    /\ configFile = [exists |-> TRUE, apis |-> <<config>>]
    /\ defaultConfig = [streamedEndpoints |-> {}]
    /\ apiIndex = 0
    /\ userApiConfigs = [set |-> TRUE, apis |-> <<config>>]
    /\ userConfig = [set |-> TRUE, cfg |-> config]
    /\ numConfigs = 1
    /\ i = 0
    /\ documentUrl = config.openApiJsonDocumentUrl
    /\ openApiDocument \in documents
    /\ requestNames = {}
    /\ responseNames = {}
    /\ opIdx = 1
    /\ schemaIdx = 1
    /\ enumComponents = <<>>
    /\ requestComponents = <<>>
    /\ responseComponents = <<>>
    /\ modelComponents = <<>>
    /\ enumNames = {}
    /\ endpointToFormRequestNameMap = <<>>
    /\ written = <<>>
    /\ clock = 0
    /\ run = 1
    /\ fetched = <<Answer("ok", openApiDocument)>>
    /\ previous = NoPrevious
    /\ client = NoCall
    /\ apiClient = NewApiClient

NextApi ==
    \/ ParseOperation
    \/ ScanForEnums
    \/ ProcessComponent
    \/ GenerateClientCode

InitClassify == InitApi(ApiConfig("u1", ClientA, {}), ClassifyDocuments)

SpecClassify == InitClassify /\ [][NextApi]_vars

InitRender ==
    \E streamedEndpoints \in {{}, {WidgetsEndpoint}, {WidgetsIdEndpoint}} :
        InitApi(ApiConfig("u1", ClientA, streamedEndpoints), RenderDocuments)

SpecRender == InitRender /\ [][NextApi]_vars

\* documents that vary the properties of Widget around a schema TagSchema that is
\* an object, an enum or a bare alias, and documents of one enum
TagSchema == <<"T","a","g">>
Missing == <<"M","i","s","s","i","n","g">>
PowerState == <<"P","o","w","e","r","S","t","a","t","e">>
Off == <<"O","f","f">>
On == <<"O","n">>

EmitProperties(name) ==
    {RawProperty(name, TArray, n, NoText, NoText, RawItems(NoText, SchemaRef(TagSchema))) :
        n \in Nullables}
    \cup {RawProperty(name, TArray, "absent", NoText, NoText, RawItems(TString, NoText)),
          RawProperty(name, TArray, "absent", NoText, NoText, NoRawNested),
          RawProperty(name, NoText, "absent", NoText, SchemaRef(TagSchema), NoRawNested),
          RawProperty(name, NoText, "absent", NoText, SchemaRef(Missing), NoRawNested),
          RawProperty(name, TString, "absent", FDateTime, NoText, NoRawNested),
          RawProperty(name, TInteger, "absent", NoText, NoText, NoRawNested),
          RawProperty(name, NoText, "absent", NoText, NoText, NoRawNested),
          [RawProperty(name, NoText, "absent", NoText, NoText, NoRawNested)
              EXCEPT !.oneOf = [present |-> TRUE, ref |-> SchemaRef(TagSchema)]],
          [RawProperty(name, NoText, "absent", NoText, NoText, NoRawNested)
              EXCEPT !.oneOf = [present |-> TRUE, ref |-> NoText]],
          [RawProperty(name, TObject, "absent", NoText, NoText, NoRawNested)
              EXCEPT !.additionalProperties = RawItems(TString, NoText)],
          [RawProperty(name, TObject, "absent", NoText, NoText, NoRawNested)
              EXCEPT !.additionalProperties = RawItems(NoText, SchemaRef(TagSchema))]}

EnumVariants(name) ==
    {[EnumSchema(name) EXCEPT !.xEnumNames = x, !.type = t] :
        x \in {[present |-> FALSE, names |-> <<>>],
               [present |-> TRUE, names |-> <<Off, On>>],
               [present |-> TRUE, names |-> <<Off>>]},
        t \in {TInteger, TNumber, <<"i","n","t","3","2">>, TString, NoText}}

EmitDocuments ==
    {Document(paths, <<ObjectSchema(Widget, TRUE, l, r), second>>) :
        paths \in {<<>>,
                   <<Operation(WidgetsEndpoint, MethodPost, Up, <<>>, RequestRef(Widget), NoContent)>>,
                   <<Operation(WidgetsEndpoint, MethodGet, Up, <<>>, NoContent, JsonRef(Widget))>>},
        l \in PropertyLists(EmitProperties),
        r \in Requireds,
        second \in {ObjectSchema(TagSchema, TRUE, <<>>, [has |-> FALSE, names |-> {}]),
                    ObjectSchema(TagSchema, FALSE, <<>>, [has |-> FALSE, names |-> {}]),
                    EnumSchema(TagSchema)}}
    \cup {Document(<<>>, <<schema>>) : schema \in EnumVariants(PowerState)}

InitEmit == InitApi(ApiConfig("u1", ClientA, {}), EmitDocuments)

SpecEmit == InitEmit /\ [][NextApi]_vars

\* documents with one GET operation whose response names a schema with Response at
\* the end of its name, inside it, or an enum
WidgetResponsePage == WidgetResponse \o <<"P","a","g","e">>

MethodNameOperations(upper) ==
    {Operation(endpoint, MethodGet, id, <<>>, NoContent, resp) :
        endpoint \in {WidgetsEndpoint, WidgetsIdEndpoint, WidgetsKeyEndpoint},
        id \in {NoText, Up},
        resp \in {NoContent, JsonRef(NameAs(upper, WidgetResponse)),
                  JsonRef(NameAs(upper, WidgetResponsePage)), JsonRef(Color)}}
    \* responses under other status codes, in the order Object.values gives them
    \cup {[Operation(WidgetsEndpoint, MethodGet, NoText, <<>>, NoContent, NoContent)
             EXCEPT !.responses = responses] :
            responses \in
                {<<[code |-> "201", contents |-> JsonRef(NameAs(upper, WidgetResponse))]>>,
                 <<[code |-> "200", contents |-> NoContent],
                   [code |-> "404", contents |-> JsonRef(NameAs(upper, WidgetResponse))]>>,
                 <<[code |-> "200", contents |-> JsonRef(NameAs(upper, WidgetResponsePage))],
                   [code |-> "404", contents |-> JsonRef(NameAs(upper, WidgetResponse))]>>}}

MethodNameDocuments ==
    UNION {{Document(<<operation>>,
                     <<ObjectSchema(NameAs(upper, WidgetResponse), TRUE, <<>>,
                                    [has |-> FALSE, names |-> {}]),
                       ObjectSchema(NameAs(upper, WidgetResponsePage), TRUE, <<>>,
                                    [has |-> FALSE, names |-> {}]),
                       EnumSchema(Color)>>) :
                operation \in MethodNameOperations(upper)} : upper \in BOOLEAN}

InitMethodName ==
    \E streamedEndpoints \in {{}, {WidgetsEndpoint}} :
        InitApi(ApiConfig("u1", ClientA, streamedEndpoints), MethodNameDocuments)

SpecMethodName == InitMethodName /\ [][NextApi]_vars

\* calls of generated awaited methods: every shape, every request function a
\* method may name, the options and the answers of the server
ClientCalls ==
    {[NoCall EXCEPT !.pc = "called", !.shape = shape, !.clientFunctionName = verb \o suffix,
                    !.options = options] :
        shape \in {"RequestAndResponse", "RequestOnly", "ResponseOnly", "NoRequestNoResponse"},
        verb \in Methods,
        suffix \in {<<>>, FormDataSuffix},
        options \in [skipJsonParsing : BOOLEAN, expectsJson : BOOLEAN,
                     useBearerToken : BOOLEAN, tokenProvided : BOOLEAN]}

ServerResponses ==
    {[received |-> TRUE, ok |-> ok, text |-> text] :
        ok \in BOOLEAN,
        text \in {NoText, <<"{", "}">>, <<"n","u","l","l">>, <<"0">>, <<"N","o">>}}

\* the client is a program of its own: the generator stands at its start
InitClient ==
    /\ pc = "start"
    /\ configFile = [exists |-> FALSE, apis |-> <<>>]
    /\ defaultConfig = [streamedEndpoints |-> {}]
    /\ apiIndex = 0
    /\ userApiConfigs = NotLoaded
    /\ userConfig = NotLoaded
    /\ numConfigs = 0
    /\ i = 0
    /\ documentUrl = ""
    /\ openApiDocument = EmptyDocument
    /\ requestNames = {}
    /\ responseNames = {}
    /\ opIdx = 1
    /\ schemaIdx = 1
    /\ enumComponents = <<>>
    /\ requestComponents = <<>>
    /\ responseComponents = <<>>
    /\ modelComponents = <<>>
    /\ enumNames = {}
    /\ endpointToFormRequestNameMap = <<>>
    /\ written = <<>>
    /\ clock = 0
    /\ run = 1
    /\ fetched = <<>>
    /\ previous = NoPrevious
    /\ client \in ClientCalls
    /\ apiClient = NewApiClient

ClientFetch == ClientSend(ServerResponses)

NextClient ==
    \/ ClientFetch
    \/ ClientVerbReturns
    \/ ClientMethodReturns

SpecClient == InitClient /\ [][NextClient]_vars

\* a new ApiClient, before any setHeader and any request
InitHeaders ==
    /\ pc = "start"
    /\ configFile = [exists |-> FALSE, apis |-> <<>>]
    /\ defaultConfig = [streamedEndpoints |-> {}]
    /\ apiIndex = 0
    /\ userApiConfigs = NotLoaded
    /\ userConfig = NotLoaded
    /\ numConfigs = 0
    /\ i = 0
    /\ documentUrl = ""
    /\ openApiDocument = EmptyDocument
    /\ requestNames = {}
    /\ responseNames = {}
    /\ opIdx = 1
    /\ schemaIdx = 1
    /\ enumComponents = <<>>
    /\ requestComponents = <<>>
    /\ responseComponents = <<>>
    /\ modelComponents = <<>>
    /\ enumNames = {}
    /\ endpointToFormRequestNameMap = <<>>
    /\ written = <<>>
    /\ clock = 0
    /\ run = 1
    /\ fetched = <<>>
    /\ previous = NoPrevious
    /\ client = NoCall
    /\ apiClient = NewApiClient

NextHeaders ==
    \/ \E key \in HeaderKeys, headerType \in HeaderTypes : setHeader(key, headerType)
    \/ RequestWithOwnOptions
    \/ MakeSharedOptions
    \/ RequestWithSharedOptions

SpecHeaders == InitHeaders /\ [][NextHeaders]_vars

\* generate called more than once in one process, over the same configuration
\* file and with fetch answering each later call as it answered the first
MaxRuns == 2

\* generate is called again once the call before it has returned or rejected: the
\* module-level collections are as that call left them
GenerateAgain ==
    /\ pc \in {"done", "threw"}
    /\ run < MaxRuns
    /\ run' = run + 1
    /\ previous' = [fetched |-> fetched, written |-> written]
    /\ fetched' = <<>>
    /\ written' = <<>>
    /\ pc' = "start"
    /\ UNCHANGED <<configVars, numConfigs, i, documentUrl, openApiDocument, requestNames,
                   responseNames, opIdx, schemaIdx, collectionVars, clock, client, apiClient>>

FetchAgain ==
    /\ FetchFrom(GenerateDocuments)
    /\ run > 1 =>
          /\ Len(fetched') <= Len(previous.fetched)
          /\ \A k \in DOMAIN fetched' : fetched'[k] = previous.fetched[k]

TwiceConfigFiles ==
    {[exists |-> TRUE, apis |-> <<ApiConfig("u1", ClientA, {})>>],
     [exists |-> TRUE, apis |-> <<ApiConfig("u1", ClientA, {}), ApiConfig("u2", ClientB, {})>>],
     [exists |-> TRUE,
      apis |-> <<ApiConfig("u1", ClientA, {}),
                 [openApiJsonDocumentUrl |-> "u2", clientName |-> ClientB,
                  clientBaseUrlValue |-> BaseUrl, outputBaseDirectory |-> "out"]>>]}

InitTwice == Init /\ configFile \in TwiceConfigFiles

NextTwice ==
    \/ Preload
    \/ BeginApi
    \/ FetchAgain
    \/ ParseOperation
    \/ ScanForEnums
    \/ ProcessComponent
    \/ GenerateClientCode
    \/ Finish
    \/ GenerateAgain

SpecTwice == InitTwice /\ [][NextTwice]_vars

-----------------------------------------------------------------------------
(* Claims.                                                                 *)

ConfigKeys == {"openApiJsonDocumentUrl", "clientName", "clientBaseUrlValue",
               "outputBaseDirectory", "streamedEndpoints"}

\* generate is inside turn i of its loop, past apiIndex = i
InsideApi == pc \in {"generateApi", "parse", "classify"}

\* what key resolves to in the entry of apis at position index (from 0), over the defaults
ResolvedFrom(index, key) ==
    LET own == configFile.apis[index + 1]
    IN  IF key \in DOMAIN own THEN [threw |-> FALSE, value |-> own[key]]
        ELSE IF key \in DOMAIN defaultConfig
        THEN [threw |-> FALSE, value |-> defaultConfig[key]]
        ELSE [threw |-> TRUE]

SameResult(a, b) == a.threw = b.threw /\ (~a.threw => a.value = b.value)

\* C1: with two or more configured sources, inside turn i of the loop of generate
\* (after preload and after apiIndex = i) every getValue(key) resolves against the
\* i-th entry of the apis array merged over the defaults.
C1_ValuesOfOwnSource ==
    (InsideApi /\ numConfigs >= 2) =>
        \A key \in ConfigKeys : SameResult(getValue(key), ResolvedFrom(i, key))

\* the schemas the classification loop has gone through without a throw
Classified ==
    IF pc \in {"classify", "loop"} THEN 1..(schemaIdx - 1) ELSE {}

\* the component the classification loop built from a schema is in collection m
HeldIn(m, schema) == MapHas(m, schema.name) /\ MapGet(m, schema.name).site = "schema"

\* C2: every top-level schema that carries an enum keyword is held in the enum
\* collection and in none of the request, response or model collections, also when
\* its name is in the request-usage or the response-usage set.  Stated over every
\* schema the loop has gone through, whether or not the run went on.
C2_EnumPriority ==
    pc \in {"classify", "loop", "threw"} =>
        \A k \in 1..(schemaIdx - 1) :
            LET schema == openApiDocument.schemas[k]
            IN  schema.hasEnum =>
                    /\ MapHas(enumComponents, schema.name)
                    /\ MapGet(enumComponents, schema.name).values = schema.enum
                    /\ ~HeldIn(requestComponents, schema)
                    /\ ~HeldIn(responseComponents, schema)
                    /\ ~HeldIn(modelComponents, schema)

C2_Witness ==
    /\ pc = "classify"
    /\ \E k \in 1..(schemaIdx - 1) :
          /\ openApiDocument.schemas[k].hasEnum
          /\ openApiDocument.schemas[k].name \in requestNames
          /\ openApiDocument.schemas[k].name \in responseNames

\* C3: after classification every component name, the names of the request
\* components synthesized from inline form-data bodies included, is a key of exactly
\* one of the four collections.
C3_OneCollectionPerName ==
    (pc = "classify" /\ schemaIdx > Len(openApiDocument.schemas)) =>
        \A name \in MapKeys(enumComponents) \cup MapKeys(requestComponents)
                    \cup MapKeys(responseComponents) \cup MapKeys(modelComponents) :
            Cardinality({m \in {"enum", "request", "response", "model"} :
                name \in CASE m = "enum" -> MapKeys(enumComponents)
                           [] m = "request" -> MapKeys(requestComponents)
                           [] m = "response" -> MapKeys(responseComponents)
                           [] m = "model" -> MapKeys(modelComponents)}) = 1

\* C4: a non-enum top-level schema is a RequestComponent when its name is in the
\* request-usage set (also when it is in the response-usage set too), otherwise a
\* ResponseComponent when its name is in the response-usage set, otherwise a
\* ModelComponent.
C4_ClassificationPriority ==
    \A k \in Classified :
        LET schema == openApiDocument.schemas[k]
            inRequest == HeldIn(requestComponents, schema)
                         /\ MapGet(requestComponents, schema.name).componentType = "Request"
            inResponse == HeldIn(responseComponents, schema)
                         /\ MapGet(responseComponents, schema.name).componentType = "Response"
            inModel == HeldIn(modelComponents, schema)
                         /\ MapGet(modelComponents, schema.name).componentType = "Model"
        IN  ~schema.hasEnum =>
                IF schema.name \in requestNames
                THEN inRequest /\ ~inResponse /\ ~inModel
                ELSE IF schema.name \in responseNames
                THEN inResponse /\ ~inRequest /\ ~inModel
                ELSE inModel /\ ~inRequest /\ ~inResponse

C4_Witness ==
    /\ pc = "classify"
    /\ \E k \in Classified :
          /\ ~openApiDocument.schemas[k].hasEnum
          /\ openApiDocument.schemas[k].name \in requestNames
          /\ openApiDocument.schemas[k].name \in responseNames
          /\ HeldIn(requestComponents, openApiDocument.schemas[k])

\* the properties of every component of the request, response and model collections
ComponentProperties ==
    UNION {{<<m[c].value, m[c].value.properties[p]>> : p \in DOMAIN m[c].value.properties} :
           <<m, c>> \in UNION {{<<mm, cc>> : cc \in DOMAIN mm} :
                mm \in {requestComponents, responseComponents, modelComponents}}}

\* ref names a top-level schema of the document that carries an enum keyword
NamesEnumSchema(ref) ==
    /\ ref # NoText
    /\ \E k \in DOMAIN openApiDocument.schemas :
          /\ openApiDocument.schemas[k].hasEnum
          /\ openApiDocument.schemas[k].name = SplitPop(ref)

ComponentOf(k) ==
    LET schema == openApiDocument.schemas[k]
    IN  IF HeldIn(requestComponents, schema) THEN MapGet(requestComponents, schema.name)
        ELSE IF HeldIn(responseComponents, schema)
        THEN MapGet(responseComponents, schema.name)
        ELSE MapGet(modelComponents, schema.name)

\* C6: a property of a named schema that has a $ref, no explicit nullable: false,
\* and is not named in the schema's required list resolves to nullable = true.
C6_ReferenceNullableByDefault ==
    \A k \in Classified :
        LET schema == openApiDocument.schemas[k]
        IN  ~schema.hasEnum =>
                \A p \in DOMAIN schema.properties :
                    (/\ schema.properties[p].ref # NoText
                     /\ schema.properties[p].nullable # "false"
                     /\ ~(schema.hasRequired /\ schema.properties[p].name \in schema.required))
                    => /\ ComponentOf(k).properties[p].name = schema.properties[p].name
                       /\ ComponentOf(k).properties[p].nullable = TRUE

C6_Witness ==
    /\ pc = "classify"
    /\ \E k \in Classified :
          /\ ~openApiDocument.schemas[k].hasEnum
          /\ \E p \in DOMAIN openApiDocument.schemas[k].properties :
                /\ openApiDocument.schemas[k].properties[p].ref # NoText
                /\ openApiDocument.schemas[k].properties[p].nullable = "absent"
                /\ ~openApiDocument.schemas[k].hasRequired
                /\ ComponentOf(k).properties[p].nullable = TRUE

\* C7: for every property of every component, the properties of a request component
\* synthesized from an inline multipart/form-data schema included, the resolved
\* nullable flag is false when the owning schema's required list names the property.
C7_RequiredForcesNotNullable ==
    \A cp \in ComponentProperties :
        cp[2].name \in cp[1].requiredProperties => cp[2].nullable = FALSE

\* the source's file has been written
Emitted == pc = "loop" /\ written # <<>>

\* the text written for the source
Output == written[Len(written)].value

\* the ApiPath generateApi built for the operation at position o
PathOf(o) ==
    ApiPath(openApiDocument.paths[o], getValue("streamedEndpoints").value,
            endpointToFormRequestNameMap)

\* the shape table of ApiPath.render
ShapeTable(request, response, streamed) ==
    CASE request /\ response /\ streamed -> "RequestAndStreamedResponse"
      [] request /\ response /\ ~streamed -> "RequestAndResponse"
      [] request /\ ~response -> "RequestOnly"
      [] ~request /\ response -> "ResponseOnly"
      [] ~request /\ ~response -> "NoRequestNoResponse"

\* C8: the method shape ApiPath.render emits is a function of (hasRequest,
\* hasResponse, isStreamed) alone, by the table: request and response give the
\* streamed async generator when streamed and the request-and-response shape
\* otherwise, a request alone the request-only shape, a response alone the
\* response-only shape, neither the no-request/no-response shape; hasRequest is a
\* linked request component, a path parameter or a query parameter.
C8_ShapeByTable ==
    Emitted =>
        \A o \in DOMAIN openApiDocument.paths :
            LET operation == openApiDocument.paths[o]
                request ==
                    \/ MapHas(requestComponents, PathOf(o).requestComponentName)
                    \/ MatchPathParams(operation.endpoint) # <<>>
                    \/ \E k \in DOMAIN operation.parameters :
                          operation.parameters[k].in = "query"
                response == MapHas(responseComponents, PathOf(o).responseComponentName)
                streamed == operation.endpoint \in getValue("streamedEndpoints").value
            IN  /\ Output.methods[o].shape = ShapeTable(request, response, streamed)
                /\ Output.methods[o].takesRequest = request

\* an operation with a linked response, no request input and a streamed endpoint
\* is written in the response-only shape
C8_Witness ==
    /\ Emitted
    /\ Output.methods[1].shape = "ResponseOnly"
    /\ Output.methods[1].isStreamed
    /\ MapHas(responseComponents, PathOf(1).responseComponentName)

GetWidgetsId == <<"g","e","t","W","i","d","g","e","t","s","I","d">>

\* GET /widgets/{id} with no declared response schema, no operationId, not streamed
IsGetWidgetsId(o) ==
    LET operation == openApiDocument.paths[o]
    IN  /\ operation.endpoint = WidgetsIdEndpoint
        /\ operation.method = MethodGet
        /\ operation.operationId = NoText
        /\ \A c \in DOMAIN operation.responses[1].contents :
              ~operation.responses[1].contents[c].hasSchema
        /\ operation.endpoint \notin getValue("streamedEndpoints").value

\* C9: with the default naming logic, GET /widgets/{id} with no declared response
\* schema, no operationId and not listed as streamed renders in the
\* no-request/no-response shape and is named getWidgetsId.
C9_GetWidgetsIdNoRequestNoResponse ==
    Emitted =>
        \A o \in DOMAIN openApiDocument.paths :
            IsGetWidgetsId(o) =>
                /\ Output.methods[o].shape = "NoRequestNoResponse"
                /\ Output.methods[o].clientMethodName = GetWidgetsId

\* C9 as the code has it: that operation is named getWidgetsId and renders in the
\* request-only shape, the path parameter making a request input; with no request
\* body and no query parameter the request type is { id: string }.
C9_GetWidgetsIdRequestOnly ==
    Emitted =>
        \A o \in DOMAIN openApiDocument.paths :
            IsGetWidgetsId(o) =>
                /\ Output.methods[o].shape = "RequestOnly"
                /\ Output.methods[o].clientMethodName = GetWidgetsId
                /\ (~openApiDocument.paths[o].hasRequestBody
                      /\ openApiDocument.paths[o].parameters = <<>>)
                   => Output.methods[o].requestDtoName
                        = <<"{", " ", "i", "d", ":", " ">> \o TString \o <<" ", "}">>

C9_Witness ==
    /\ Emitted
    /\ IsGetWidgetsId(1)
    /\ ~openApiDocument.paths[1].hasRequestBody
    /\ openApiDocument.paths[1].parameters = <<>>
    /\ Output.methods[1].shape = "RequestOnly"

\* the declarations written for the components of collection m are those of list
\* rendered, each under the names made of its component's name by alias and class
DeclaredAs(m, rendered, alias(_), class(_)) ==
    /\ Len(rendered) = Len(m)
    /\ \A c \in DOMAIN m :
          /\ rendered[c].typeAlias = alias(m[c].value.name)
          /\ rendered[c].hasClass
          /\ rendered[c].className = class(m[c].value.name)

\* a request component emits exactly one flat alias T{N} and no class
RequestsDeclared ==
    /\ Len(Output.requests) = Len(requestComponents)
    /\ \A c \in DOMAIN requestComponents :
          /\ Output.requests[c].typeAlias = <<"T">> \o requestComponents[c].value.name
          /\ ~Output.requests[c].hasClass

DtoOfName(name) == <<"T">> \o name \o <<"D", "t", "o">>

DtoOfCapitalizedName(name) == <<"T">> \o UpperFirst(name) \o <<"D", "t", "o">>

SameName(name) == name

\* C10: a Model or Response component named N always emits the wire type T{N}Dto
\* and the value class N; a Request component named N always emits exactly one flat
\* type alias named T{N}, with no Dto suffix and no companion class.
C10_DeclarationsByName ==
    Emitted =>
        /\ DeclaredAs(responseComponents, Output.responses, DtoOfName, SameName)
        /\ DeclaredAs(modelComponents, Output.models, DtoOfName, SameName)
        /\ RequestsDeclared

\* C10 as the code has it: a Model or Response component named N emits the wire
\* type T{C}Dto and the value class C, C being N with its first character in upper
\* case; a Request component named N emits exactly the alias T{N} and no class.
C10_DeclarationsByCapitalizedName ==
    Emitted =>
        /\ DeclaredAs(responseComponents, Output.responses, DtoOfCapitalizedName, UpperFirst)
        /\ DeclaredAs(modelComponents, Output.models, DtoOfCapitalizedName, UpperFirst)
        /\ RequestsDeclared

C10_Witness ==
    /\ Emitted
    /\ \E c \in DOMAIN responseComponents :
          /\ responseComponents[c].value.name = LowerFirst(WidgetResponse)
          /\ Output.responses[c].className = WidgetResponse
    /\ modelComponents # <<>>
    /\ \E c \in DOMAIN requestComponents :
          requestComponents[c].value.name = LowerFirst(CreateWidgetRequest)

\* a text with its generation timestamp line left out
WithoutTimestamp(text) == [text EXCEPT !.generatedOn = 0]

\* the same files written in the same order with the same text, timestamps apart
SameWrites(ws, vs) ==
    /\ Len(ws) = Len(vs)
    /\ \A k \in DOMAIN ws :
          /\ ws[k].key = vs[k].key
          /\ WithoutTimestamp(ws[k].value) = WithoutTimestamp(vs[k].value)

\* C11: two successive calls of generate over the same documents and the same
\* configuration write the same text except for the generation timestamp line:
\* nothing the first call left (component collections, enum names, form-request
\* map, cached configuration) changes what the second call writes.
C11_SecondRunWritesTheSame ==
    (run > 1 /\ pc \in {"done", "threw"}) =>
        /\ fetched = previous.fetched
        /\ SameWrites(written, previous.written)

\* the second call has ended after two sources with different documents, the
\* collections holding the second document's components when it began, and its
\* text differs from the first call's in the timestamp only
C11_Witness ==
    /\ run = 2
    /\ pc = "done"
    /\ Len(written) = 2
    /\ fetched[1].document # fetched[2].document
    /\ previous.written[2].value.enums # <<>>
    /\ written[1].value.responses # <<>>
    /\ written[1].value.generatedOn # previous.written[1].value.generatedOn

\* the schemas of the document that carry an enum keyword, in document order
EnumSchemasInOrder == SelectSeq(openApiDocument.schemas, LAMBDA schema : schema.hasEnum)

NumericTypes == {TInteger, TNumber, <<"i","n","t","3","2">>, <<"i","n","t","6","4">>}

\* C12: EnumComponent.render emits one entry per enum value in document order;
\* entry i's label is the i-th friendly name of x-enumNames when that list is
\* supplied (and reaches that far) and otherwise the raw value, and its assigned
\* value is the raw value, unquoted when the enum's type is numeric and
\* double-quoted otherwise.
C12_EnumEntries ==
    Emitted =>
        /\ Len(Output.enums) = Len(EnumSchemasInOrder)
        /\ \A c \in DOMAIN Output.enums :
              LET schema == EnumSchemasInOrder[c]
                  entries == Output.enums[c].entries
              IN  /\ Output.enums[c].ofComponent = schema.name
                  /\ Len(entries) = Len(schema.enum)
                  /\ \A k \in DOMAIN entries :
                        /\ entries[k].label =
                              IF schema.xEnumNames.present
                                 /\ k <= Len(schema.xEnumNames.names)
                              THEN schema.xEnumNames.names[k]
                              ELSE schema.enum[k]
                        /\ entries[k].value =
                              IF schema.type \in NumericTypes
                              THEN schema.enum[k]
                              ELSE <<"\"">> \o schema.enum[k] \o <<"\"">>

\* {enum: [0, 1], x-enumNames: [Off, On], type: integer} named PowerState is written
\* as Off = 0, On = 1
C12_Witness ==
    /\ Emitted
    /\ Len(openApiDocument.schemas) = 1
    /\ openApiDocument.schemas[1].name = PowerState
    /\ openApiDocument.schemas[1].type = TInteger
    /\ openApiDocument.schemas[1].xEnumNames.present
    /\ Output.enums[1].entries = <<[label |-> Off, value |-> <<"0">>],
                                   [label |-> On, value |-> <<"1">>]>>

\* the declarations written for the schema at position k of the document, when it
\* was classified as a response or as a model
ValueClassesOf(k) ==
    {Output.responses[c] : c \in {d \in DOMAIN Output.responses :
        Output.responses[d].ofComponent = openApiDocument.schemas[k].name}}
    \cup {Output.models[c] : c \in {d \in DOMAIN Output.models :
        Output.models[d].ofComponent = openApiDocument.schemas[k].name}}

\* the raw property is an array whose items reference a schema that is no enum
IsArrayOfClass(property) ==
    /\ property.type = TArray
    /\ property.ref = NoText
    /\ property.items.present
    /\ property.items.ref # NoText
    /\ ~NamesEnumSchema(property.items.ref)

\* C13: for a property of type array whose items reference a schema Tag that is
\* not an enum, the wire type is TTagDto[] and the domain type is Tag[], and the
\* constructor of the owning value class maps every wire element through
\* new Tag(item), through an optional-chained map when the property is nullable.
C13_ArrayOfClass ==
    Emitted =>
        \A k \in DOMAIN openApiDocument.schemas :
            \A declared \in ValueClassesOf(k) :
                \A p \in DOMAIN openApiDocument.schemas[k].properties :
                    LET property == openApiDocument.schemas[k].properties[p]
                        tag == SplitPop(property.items.ref)
                    IN  IsArrayOfClass(property) =>
                            /\ declared.properties[p].name = property.name
                            /\ declared.properties[p].wireType
                                 = <<"T">> \o tag \o <<"D","t","o","[","]">>
                            /\ declared.properties[p].domainType = tag \o <<"[","]">>
                            /\ declared.properties[p].construct.className = tag
                            /\ declared.properties[p].construct.kind =
                                 IF declared.properties[p].optional
                                 THEN "optionalMap" ELSE "map"

C13_Witness ==
    /\ Emitted
    /\ \E k \in DOMAIN openApiDocument.schemas :
          \E declared \in ValueClassesOf(k) :
             \E p \in DOMAIN openApiDocument.schemas[k].properties :
                /\ IsArrayOfClass(openApiDocument.schemas[k].properties[p])
                /\ declared.properties[p].wireType
                     = <<"T","T","a","g","D","t","o","[","]">>
                /\ declared.properties[p].domainType = <<"T","a","g","[","]">>
                /\ declared.properties[p].construct.kind = "optionalMap"

\* C14: for every generated awaited method and every runtime verb it calls (get,
\* post, put, patch, delete), a non-2xx response or an empty response body ends in
\* the pair [null, rawResponse] and never in an exception, whatever the text of the
\* response body is.
C14_NullOnFailureNeverThrows ==
    (/\ client.response.received
     /\ client.clientFunctionName \in Methods
     /\ ~client.response.ok \/ client.response.text = NoText)
    => /\ client.pc # "threw"
       /\ client.pc = "returned" =>
             client.result = [first |-> "null", second |-> client.response]

\* C15: when the document of API source i is missing or unreachable (the fetch
\* answers with a response that is not OK, or the fetch itself fails), source i
\* is given up without a write and generate goes on with source i+1.
C15_MissingDocumentSkipsSource ==
    (/\ fetched # <<>>
     /\ fetched[Len(fetched)].kind \in {"notOk", "rejected"})
    => /\ i = Len(fetched)
       /\ \A w \in 1..Len(written) : written[w].turn # Len(fetched) - 1

\* the keys the generator reads that the merged configuration lacks
MissingKeys ==
    ConfigKeys \ DOMAIN MergeConfig(defaultConfig,
        getUserConfig(userConfig, getUserApiConfigs(userApiConfigs, configFile), apiIndex))

\* C16: when a key the generator requires (openApiJsonDocumentUrl, clientName,
\* clientBaseUrlValue, outputBaseDirectory, streamedEndpoints) is absent from the
\* merged configuration, getValue throws and the run is aborted: generate gets
\* past a source only when its document was not fetched, nothing is fetched at all
\* without the url, and at the throw no file has been written for the source.
C16_MissingKeyAbortsBeforeWrite ==
    /\ pc = "threw" => \A w \in 1..Len(written) : written[w].turn # i
    /\ MissingKeys # {} =>
          /\ \A w \in 1..Len(written) : written[w].turn # i
          /\ \A t \in 0..(i - 1) : fetched[t + 1].kind = "notOk"
          /\ "openApiJsonDocumentUrl" \in MissingKeys => fetched = <<>>
          /\ pc = "done" => i = numConfigs

\* the second source's document arrived and was classified, and the read of
\* clientName threw
C16_Witness ==
    /\ pc = "threw"
    /\ MissingKeys = {"clientName"}
    /\ i = 1
    /\ Len(fetched) = 2
    /\ fetched[2].kind = "ok"
    /\ openApiDocument.schemas # <<>>
    /\ schemaIdx > Len(openApiDocument.schemas)
    /\ written = <<>>

\* a property whose $ref names no schema of the document, or that has neither
\* type nor $ref nor oneOf
MalformedProperty(property) ==
    \/ /\ property.ref # NoText
       /\ \A k \in DOMAIN openApiDocument.schemas :
             openApiDocument.schemas[k].name # SplitPop(property.ref)
    \/ property.type = NoText /\ property.ref = NoText /\ ~property.oneOf.present

\* a named schema that is no enum and has no properties map, or has such a property
MalformedSchema(schema) ==
    /\ ~schema.hasEnum
    /\ \/ ~schema.hasProperties
       \/ \E p \in DOMAIN schema.properties : MalformedProperty(schema.properties[p])

\* C17: output is always produced for a fetched document: with a malformed named
\* schema (an unresolvable $ref, a property with neither type nor $ref nor oneOf, a
\* non-enum schema without a properties map) classification and rendering degrade
\* to an unknown or absent type and generateApi still reaches the write; it does
\* not abort.
C17_MalformedSchemaStillWritten ==
    (\E k \in DOMAIN openApiDocument.schemas : MalformedSchema(openApiDocument.schemas[k]))
    => pc # "threw"

\* the names of the components a document gives rise to: its named schemas and
\* the requests synthesized from its inline multipart/form-data bodies
NamesFrom(document) ==
    {document.schemas[k].name : k \in DOMAIN document.schemas}
    \cup {FormSchemaName(document.paths[o].operationId) :
            o \in {q \in DOMAIN document.paths :
                     \E c \in DOMAIN document.paths[q].requestContents :
                        LET content == document.paths[q].requestContents[c]
                        IN  /\ content.hasSchema
                            /\ content.ref = NoText
                            /\ content.contentType = "multipart/form-data"}}

\* the components one output renders
RenderedIn(output) ==
    {output.requests[c].ofComponent : c \in DOMAIN output.requests}
    \cup {output.responses[c].ofComponent : c \in DOMAIN output.responses}
    \cup {output.enums[c].ofComponent : c \in DOMAIN output.enums}
    \cup {output.models[c].ofComponent : c \in DOMAIN output.models}

\* C18: when generateApi starts for a source, the enum, request, response and model
\* collections, the enum-name set and the form-request map are empty, so nothing of
\* the source before is in them; while the source's document is parsed and
\* classified they hold entries of that document only, and every component an
\* output renders comes from the document fetched for that output's source.
C18_NoEntryFromPreviousSource ==
    /\ pc = "generateApi" =>
          /\ enumComponents = <<>> /\ requestComponents = <<>>
          /\ responseComponents = <<>> /\ modelComponents = <<>>
          /\ enumNames = {} /\ endpointToFormRequestNameMap = <<>>
    /\ pc \in {"parse", "classify"} =>
          /\ \A m \in {enumComponents, requestComponents, responseComponents, modelComponents} :
                \A c \in DOMAIN m : m[c].key \in NamesFrom(openApiDocument)
          /\ enumNames \subseteq NamesFrom(openApiDocument)
          /\ \A c \in DOMAIN endpointToFormRequestNameMap :
                endpointToFormRequestNameMap[c].value \in NamesFrom(openApiDocument)
    /\ \A w \in DOMAIN written :
          RenderedIn(written[w].value) \subseteq NamesFrom(fetched[written[w].turn + 1].document)

\* two sources were generated: the first rendered an enum and a form request, the
\* second a response and neither of the first's components
C18_Witness ==
    /\ pc = "loop"
    /\ Len(written) = 2
    /\ written[1].turn = 0
    /\ written[2].turn = 1
    /\ DOMAIN written[1].value.enums # {}
    /\ DOMAIN written[1].value.requests # {}
    /\ DOMAIN written[2].value.responses # {}
    /\ RenderedIn(written[1].value) \cap RenderedIn(written[2].value) = {}

\* the {token} placeholders of an endpoint template, braces removed: a token is
\* the text between a "{" and the next "}", at least one character, none a brace
RECURSIVE TemplateTokens(_)
TemplateTokens(str) ==
    LET open == IndexOf(str, <<"{">>, 1)
        close == IF open = 0 THEN 0 ELSE IndexOf(str, <<"}">>, open + 1)
    IN  IF open = 0 \/ close = 0 THEN <<>>
        ELSE LET token == SubSeq(str, open + 1, close - 1)
                 rest == TemplateTokens(SubSeq(str, close + 1, Len(str)))
             IN  IF token = <<>> \/ \E k \in DOMAIN token : token[k] = "{"
                 THEN TemplateTokens(SubSeq(str, open + 1, Len(str)))
                 ELSE <<token>> \o rest

\* `{ a: string, b: string }` for the tokens a, b
TokensType(tokens) ==
    <<"{", " ">> \o JoinComma([k \in DOMAIN tokens |-> tokens[k] \o <<":", " ">> \o TString])
    \o <<" ", "}">>

\* C19: for every operation whose endpoint template contains at least one {token},
\* the rendered method takes a request parameter whose type lists each token as a
\* mandatory string field, with or without a linked named request component; with
\* one linked, the type is the intersection of the path-parameter type and the
\* named request type (behind the query-parameter type when there are query
\* parameters).
C19_TokensAreRequestFields ==
    Emitted =>
        \A o \in DOMAIN openApiDocument.paths :
            LET tokens == TemplateTokens(openApiDocument.paths[o].endpoint)
                method == Output.methods[o]
                linked == MapHas(requestComponents, PathOf(o).requestComponentName)
                named == <<"T">> \o capitalizedName(
                            MapGet(requestComponents, PathOf(o).requestComponentName))
                own == IF linked THEN TokensType(tokens) \o <<" ", "&", " ">> \o named
                       ELSE TokensType(tokens)
            IN  tokens # <<>> =>
                    /\ method.takesRequest
                    /\ IF hasQueryParams(PathOf(o))
                       THEN method.requestDtoName =
                               queryParamsType(PathOf(o)) \o <<" ", "&", " ">> \o own
                       ELSE method.requestDtoName = own

\* s without suffix at its end, s itself when it does not end with suffix
WithoutTrailing(s, suffix) ==
    IF Len(s) >= Len(suffix) /\ SubSeq(s, Len(s) - Len(suffix) + 1, Len(s)) = suffix
    THEN SubSeq(s, 1, Len(s) - Len(suffix))
    ELSE s

\* str with the characters that are not alphanumeric removed and the first
\* character of every segment between them upper-cased
RECURSIVE TitleCasedSegments(_, _)
TitleCasedSegments(str, atStart) ==
    IF str = <<>> THEN <<>>
    ELSE IF ~IsAlnum(Head(str)) THEN TitleCasedSegments(Tail(str), TRUE)
    ELSE <<IF atStart THEN toUpperCase(Head(str)) ELSE Head(str)>>
         \o TitleCasedSegments(Tail(str), FALSE)

\* C20: a GET operation with no operationId (on an endpoint that is not streamed)
\* is named, with a linked response component, by the component's name with its
\* first letter lower-cased and its trailing "Response" removed and nothing else
\* altered, and with no linked response get{Resource}, Resource being the endpoint
\* template without its non-alphanumeric characters and each segment title-cased.
C20_GetNameFromResponse ==
    Emitted =>
        \A o \in DOMAIN openApiDocument.paths :
            LET operation == openApiDocument.paths[o]
                linked == MapHas(responseComponents, PathOf(o).responseComponentName)
                name == MapGet(responseComponents, PathOf(o).responseComponentName).name
            IN  (/\ operation.method = MethodGet
                 /\ operation.operationId = NoText
                 /\ ~PathOf(o).isStreamed)
                => Output.methods[o].clientMethodName =
                      IF linked
                      THEN WithoutTrailing(LowerFirst(name), <<"R","e","s","p","o","n","s","e">>)
                      ELSE MethodGet \o TitleCasedSegments(operation.endpoint, TRUE)

\* C21: every property of every classified schema (Request, Response or Model)
\* whose type is absent and which has a oneOf union gets as its type the name of
\* the schema the first member of the union refers to, or "unknown" when the first
\* member has no $ref.
C21_OneOfFallback ==
    \A k \in Classified :
        LET schema == openApiDocument.schemas[k]
        IN  ~schema.hasEnum =>
                \A p \in DOMAIN schema.properties :
                    LET raw == schema.properties[p]
                    IN  (raw.type = NoText /\ raw.oneOf.present) =>
                            ComponentOf(k).properties[p].type =
                                IF raw.oneOf.ref # NoText
                                THEN SplitPop(raw.oneOf.ref) ELSE TUnknown

\* the inline multipart/form-data request contents of an operation
InlineFormContents(operation) ==
    {c \in DOMAIN operation.requestContents :
        /\ operation.requestContents[c].hasSchema
        /\ operation.requestContents[c].ref = NoText
        /\ operation.requestContents[c].contentType = "multipart/form-data"}

\* the synthesized request component of the operation at o is held under name, has
\* one form field per property of the inline schema (a file for a binary one), and
\* the operation is linked to it and flagged as a form endpoint
FormRequestHeldAs(o, name) ==
    LET operation == openApiDocument.paths[o]
    IN  \A c \in InlineFormContents(operation) :
            LET inline == operation.requestContents[c].properties
            IN  /\ MapHas(requestComponents, name)
                /\ LET fields == MapGet(requestComponents, name).properties
                   IN  /\ DOMAIN fields = DOMAIN inline
                       /\ \A p \in DOMAIN inline :
                             /\ fields[p].name = inline[p].name
                             /\ fields[p].isFormField
                             /\ fields[p].type = IF inline[p].format = FBinary
                                                 THEN TFile ELSE inline[p].type
                /\ PathOf(o).requestComponentName = name
                /\ PathOf(o).isFormEndpoint

C23_FormMethodsBuildFormData ==
    Emitted =>
        \A o \in DOMAIN openApiDocument.paths :
            LET method == Output.methods[o]
                verb == openApiDocument.paths[o].method \o <<"F","o","r","m","D","a","t","a">>
                fields == MapGet(requestComponents, PathOf(o).requestComponentName).properties
            IN  PathOf(o).isFormEndpoint =>
                    /\ StartsWith(method.clientFunctionName, verb)
                    /\ method.declaresFormData
                    /\ method.formDataAppends = [k \in DOMAIN fields |-> fields[k].name]

\* the rendered properties of the value classes, each with the Property it renders
RenderedClassProperties ==
    UNION {{<<modelComponents[c].value.properties[p], Output.models[c].properties[p]>> :
                p \in DOMAIN modelComponents[c].value.properties} :
           c \in DOMAIN modelComponents}
    \cup UNION {{<<responseComponents[c].value.properties[p],
                   Output.responses[c].properties[p]>> :
                p \in DOMAIN responseComponents[c].value.properties} :
           c \in DOMAIN responseComponents}

\* C24: the value type of a dictionary comes from the same formatter applied to the
\* value descriptor: a dictionary property whose value schema is a reference to an
\* enum schema E has the wire type Record<string, E> and the domain type
\* Map<string, E>, the enum's own name in both and no T...Dto around it.
C24_DictionaryOfEnum ==
    Emitted =>
        \A rp \in RenderedClassProperties :
            (/\ isDictionary(rp[1])
             /\ NamesEnumSchema(rp[1].additionalProperties.ref))
            => /\ rp[2].wireType =
                     <<"R","e","c","o","r","d","<","s","t","r","i","n","g",",", " ">>
                     \o SplitPop(rp[1].additionalProperties.ref) \o <<">">>
               /\ rp[2].domainType =
                     <<"M","a","p","<","s","t","r","i","n","g",",", " ">>
                     \o SplitPop(rp[1].additionalProperties.ref) \o <<">">>

\* the name of the schema the application/json content of the 200 response of an
\* operation refers to, NoText when there is no such response or no such reference
ReferencedBy200(operation) ==
    LET ok == {r \in DOMAIN operation.responses : operation.responses[r].code = "200"}
    IN  IF ok = {} THEN NoText
        ELSE LET content == ContentOfType(operation.responses[CHOOSE r \in ok : TRUE].contents,
                                          "application/json")
             IN  IF content.hasSchema /\ content.ref # NoText
                 THEN SplitPop(content.ref) ELSE NoText

\* C25: the linked response component name of an operation is the schema its 200
\* response's content refers to; an operation whose 200 response has no schema
\* reference, or that declares no 200 response, has no linked response, even when
\* the response of another status code refers to a schema.
C25_ResponseOf200 ==
    Emitted =>
        \A o \in DOMAIN openApiDocument.paths :
            /\ PathOf(o).responseComponentName = ReferencedBy200(openApiDocument.paths[o])
            /\ ReferencedBy200(openApiDocument.paths[o]) = NoText =>
                  Output.methods[o].finalResponse = TAny

\* the type names the written output declares
DeclaredNames ==
    {Output.requests[c].typeAlias : c \in DOMAIN Output.requests}
    \cup {Output.responses[c].typeAlias : c \in DOMAIN Output.responses}
    \cup {Output.responses[c].className : c \in DOMAIN Output.responses}
    \cup {Output.models[c].typeAlias : c \in DOMAIN Output.models}
    \cup {Output.models[c].className : c \in DOMAIN Output.models}
    \cup {Output.enums[c].enumName : c \in DOMAIN Output.enums}

\* C26: referential integrity of the emitted module: when every $ref of the
\* document names a top-level schema, every schema-derived type name a method
\* signature refers to (T{Name} of the request, T{Name}Dto and {Name} of the
\* response) is declared in the same output under exactly that name, also when the
\* schema has a lowercase-initial name.
C26_SignatureNamesDeclared ==
    Emitted =>
        \A o \in DOMAIN openApiDocument.paths :
            LET method == Output.methods[o]
                path == PathOf(o)
            IN  /\ (method.takesRequest /\ hasRequestComponent(path, requestComponents)) =>
                      requestDtoName(MapGet(requestComponents, path.requestComponentName))
                         \in DeclaredNames
                /\ hasResponseComponent(path, responseComponents) =>
                      /\ method.responseDtoName \in DeclaredNames
                      /\ method.finalResponse \in DeclaredNames

\* the request functions of ApiClient whose second parameter is the body
BodySecond ==
    {MethodPost, MethodPut, MethodPatch, MethodDelete, MethodPost \o FormDataSuffix}
    \cup {verb \o <<"I","t","e","r","a","b","l","e">> : verb \in {MethodPost, MethodPut, MethodPatch}}

\* C27: in every rendered method the arguments of the runtime verb line up with the
\* verb's parameters: for a verb whose second parameter is a body (post, put,
\* patch, delete, the post/put/patch iterable variants) options is never passed in
\* the body position, also for operations with path or query parameters and no
\* linked request component.
C27_OptionsNotInBodyPosition ==
    Emitted =>
        \A o \in DOMAIN openApiDocument.paths :
            Output.methods[o].clientFunctionName \in BodySecond =>
                Output.methods[o].callArguments[2] # <<"o","p","t","i","o","n","s">>

\* C28: a rendered method refers to the form payload (a formData declaration,
\* formData.append statements, formData as an argument of the call) only when its
\* operation is form-flagged: for every operation that is not, in every shape, the
\* rendered text has no formData statement.
C28_FormDataOnlyInFormMethods ==
    Emitted =>
        \A o \in DOMAIN openApiDocument.paths :
            ~PathOf(o).isFormEndpoint =>
                /\ ~Output.methods[o].declaresFormData
                /\ Output.methods[o].formDataAppends = <<>>
                /\ \A a \in DOMAIN Output.methods[o].callArguments :
                      Output.methods[o].callArguments[a] # <<"f","o","r","m","D","a","t","a">>

\* the method is written as a generator (the * marker) with the Stream suffix
MarkedAsStream(method) ==
    /\ StartsWith(method.clientMethodName, <<"*">>)
    /\ WithoutTrailing(method.clientMethodName, <<"S","t","r","e","a","m">>)
          # method.clientMethodName

\* C29: a rendered method carries the lazy-producer marking (the generator marker
\* and the Stream suffix of its name) if and only if the lazy-sequence shape was
\* selected for it: a streamed operation rendered in one of the awaited shapes,
\* for want of a request or of a linked response, is not marked.
C29_MarkedIffStreamedShape ==
    Emitted =>
        \A o \in DOMAIN openApiDocument.paths :
            MarkedAsStream(Output.methods[o])
                <=> Output.methods[o].shape = "RequestAndStreamedResponse"

\* C30: on one ApiClient, whatever setHeader calls and requests came before,
\* every request sends, for each key, the caller's own per-request header if
\* it gave one, else the header set as Transient since the request before,
\* else the header set as Persistent, and nothing else: a Transient header is
\* sent once, also when the caller passes the same options object again.
C30_HeadersSentAsAskedFor ==
    apiClient.requests > 0 => apiClient.sent = apiClient.asked

\* the same, for the requests whose options object the caller made for them
C30_OwnOptionsSentAsAskedFor ==
    (apiClient.requests > 0 /\ apiClient.sharedUses = 0)
        => apiClient.sent = apiClient.asked

\* a second request with the same options object, after a Transient header
\* went out with the first
C30_SharedOptionsTwice ==
    /\ apiClient.sharedUses >= 2
    /\ apiClient.last = "shared"
    /\ \E key \in HeaderKeys : apiClient.sent[key] = "T" /\ apiClient.asked[key] # "T"

=============================================================================
